---- MODULE Spec2Model ----
(***************************************************************************)
(* Shelf-overview board of the book-keeper console: the local, optimistic  *)
(* placement map (rowPlacementsMap), the set of pending rows, the query    *)
(* cache entries "shelf-structure" and "unplaced-books", the mutations in  *)
(* flight and the backend's placements.                                    *)
(*                                                                         *)
(* Indices are 0-based where the code's are (array indices) and 1-based    *)
(* where the code's are (slot_index); TLA+ sequences are 1-based, so an    *)
(* array index i addresses element i + 1 of a sequence.                    *)
(***************************************************************************)
EXTENDS Integers, Sequences, FiniteSets, TLC

\* ---------------------------------------------------------------- bounds
NumBooks == 4
NumRows == 2
MaxDrags == 2
MaxClears == 1
MaxDeletes == 1
MaxSwitches == 1
NumShelves == 2
NumFrameRows == 3
LargeTotal == 25
SmallTotal == 4
SmallPageSize == 3
MaxTabDrags == 1
MaxCapacity == 5
SmallCapacity == 2
MaxSlot == 5
MaxPlacements == 2

Books == 1..NumBooks
Rows == 1..NumRows
Shelves == 1..NumShelves

\* ------------------------------------------------------ program constants
MIN_VISIBLE_SLOTS == 4
MAX_VIEWPORT_SLOTS == 6

\* row.capacity of the shelf structure: row 1 has no capacity (null), the
\* other rows hold SmallCapacity books.
RowCapacity(r) == IF r = 1 THEN 0 ELSE SmallCapacity

\* ------------------------------------------------------------- array code
Min(a, b) == IF a < b THEN a ELSE b
Max(a, b) == IF a > b THEN a ELSE b

Range(seq) == {seq[i] : i \in 1..Len(seq)}

\* ShelfPlacement, reduced to the two fields the board computes with.
Placement(b, s) == [book_id |-> b, slot_index |-> s]

BookIds(placements) == [i \in 1..Len(placements) |-> placements[i].book_id]
BookSet(placements) == {placements[i].book_id : i \in 1..Len(placements)}
SlotIndices(placements) == [i \in 1..Len(placements) |-> placements[i].slot_index]

\* Array.prototype.findIndex(item => item.book_id === bookId): the first
\* 0-based index, or -1.
FindIndex(placements, bookId) ==
    IF \E i \in 1..Len(placements) : placements[i].book_id = bookId
    THEN (CHOOSE i \in 1..Len(placements) :
              /\ placements[i].book_id = bookId
              /\ \A j \in 1..(i - 1) : placements[j].book_id # bookId) - 1
    ELSE -1

SpliceOver(arr, start, item) ==
    LET s == Max(0, Min(start, Len(arr)))
    IN  SubSeq(arr, 1, s) \o <<item>> \o SubSeq(arr, s + 2, Len(arr))

\* Array.prototype.splice(start, 0, item) on a copy; start is clamped to the
\* array length as splice does.
SpliceIn(arr, start, item) ==
    LET s == Max(0, Min(start, Len(arr)))
    IN  SubSeq(arr, 1, s) \o <<item>> \o SubSeq(arr, s + 1, Len(arr))

\* Array.prototype.splice(start, 1) on a copy: the array without element start.
SpliceOut(arr, start) ==
    IF start < 0 \/ start >= Len(arr) THEN arr
    ELSE SubSeq(arr, 1, start) \o SubSeq(arr, start + 2, Len(arr))

arrayMoveBySwap(arr, from, to) ==
    [k \in 1..Len(arr) |-> IF k = from + 1 THEN arr[to + 1]
                           ELSE IF k = to + 1 THEN arr[from + 1]
                           ELSE arr[k]]

\* arrayMove of @dnd-kit/sortable: remove the element at from, insert it at to.
arrayMove(arr, from, to) ==
    SpliceIn(SpliceOut(arr, from), IF to < 0 THEN Len(arr) + to ELSE to, arr[from + 1])

reindexPlacementsFromZero(placements) ==
    [i \in 1..Len(placements) |-> [placements[i] EXCEPT !.slot_index = i - 1]]

\* slot_index: index + 1 for the 0-based index of map().
reindexPlacements(placements) ==
    [i \in 1..Len(placements) |-> [placements[i] EXCEPT !.slot_index = i]]

buildPlacementFromBook(book) == Placement(book, 1)

\* [...row.placements].sort((a, b) => a.slot_index - b.slot_index):
\* a stable insertion sort by slot_index.
RECURSIVE InsertBySlot(_, _)
InsertBySlot(sorted, p) ==
    IF sorted = << >> THEN <<p>>
    ELSE IF Head(sorted).slot_index <= p.slot_index
         THEN <<Head(sorted)>> \o InsertBySlot(Tail(sorted), p)
         ELSE <<p>> \o sorted

RECURSIVE SortBySlotFrom(_, _)
SortBySlotFrom(sorted, rest) ==
    IF rest = << >> THEN sorted
    ELSE SortBySlotFrom(InsertBySlot(sorted, Head(rest)), Tail(rest))

SortBySlot(placements) == SortBySlotFrom(<< >>, placements)

\* The snapshot the effect builds from the query data: every row's placements
\* sorted by slot_index (the slot numbers are kept as the server sent them).
Snapshot(data) == [r \in Rows |-> SortBySlot(data[r])]

\* ------------------------------------------------------------------ state
VARIABLES
    srv,               \* backend: row id -> placements, in storage order
    structData,        \* query cache, key "shelf-structure": row id -> row.placements
    structFetching,    \* a fetch of "shelf-structure" is outstanding
    unplacedData,      \* query cache, key "unplaced-books": the ids of the books listed
    unplacedFetching,  \* a fetch of "unplaced-books" is outstanding
    rowPlacementsMap,  \* useState: row id -> ShelfPlacement[]
    pendingRows,       \* useState: Set of row ids
    inflight,          \* mutations dispatched and not settled
    drags,             \* number of effective drops so far
    clears,            \* number of clear-placement calls so far
    last,              \* the step taken last, with its inputs (history)
    currentTab,        \* App: the tab whose view is mounted
    structInvalid,     \* "shelf-structure" was invalidated while no view observed it
    unplacedInvalid,   \* "unplaced-books" was invalidated while no view observed it
    deleted,           \* backend: the books deleted from the collection
    deletes,           \* number of delete-book prompts so far
    cleared,           \* the books whose placement was cleared so far (history)
    liveShelves,       \* backend: the shelves that exist
    liveRows,          \* backend: the rows that exist
    selectedShelfId,   \* ShelvesView: the selected shelf, NoShelf when none
    shelvesData,       \* query cache, key "shelves": the shelves listed, {} when undefined
    shelvesFetching,   \* a fetch of "shelves" is outstanding
    switches,          \* number of times the board was left for the collection
    form,              \* SearchView: useState form
    activeParams,      \* SearchView: useState activeParams, NoParams when null
    searchResponse,    \* SearchView: searchQuery.data, NoResponse when undefined
    searchFetching,    \* SearchView: searchQuery.isFetching
    pendingRowId,      \* views/ShelfOverview: useState pendingRowId, NoRow when null
    snackbarOpen,      \* views/ShelfOverview: snackbar.open
    dialogOpen,        \* PlacementDialog: the prop open
    dialogBook,        \* PlacementDialog: the prop book, NoBookProp when null
    selectedShelf,     \* PlacementDialog: useState selectedShelf, NoShelf when ""
    selectedRow,       \* PlacementDialog: useState selectedRow, NoRow when ""
    selectedSlot,      \* PlacementDialog: useState selectedSlot, NoSlot when null
    effectsRun,        \* PlacementDialog: the effects of the last render have run
    placementCall,     \* PlacementDialog: the placement call in flight, NoPlacementCall when none
    placementsMade,    \* number of placement calls so far
    sectionCapacity,   \* one ShelfRowSection: rowInfo.row.capacity (0 is null)
    sectionPlacements, \* one ShelfRowSection: the prop rowPlacements
    sectionVisibleSlots, \* one ShelfRowSection: useState visibleSlots
    sectionSlotOffset  \* one ShelfRowSection: useState slotOffset

\* The state of the one row section that RowSpec follows on its own through
\* resizes and scrolling; Spec renders its rows through SlotNumbers, Cards
\* and Placeholders and leaves these variables alone.
sectionVars == <<sectionCapacity, sectionPlacements, sectionVisibleSlots,
                 sectionSlotOffset>>

\* The backend's shelves and rows and the state of ShelvesView: the board and
\* the collection view leave them alone.
shelfVars == <<liveShelves, liveRows, selectedShelfId>>

\* The query of "shelves" that ShelvesView lists.
listVars == <<shelvesData, shelvesFetching>>

\* The state of SearchView.
searchVars == <<form, activeParams, searchResponse, searchFetching>>

\* The state that the single-row board of views/ShelfOverview.tsx has besides
\* rowPlacementsMap and the two queries.
singleVars == <<pendingRowId, snackbarOpen>>

\* The state of PlacementDialog.
dialogVars == <<dialogOpen, dialogBook, selectedShelf, selectedRow, selectedSlot,
                effectsRun, placementCall, placementsMade>>

vars == <<srv, structData, structFetching, unplacedData, unplacedFetching,
          rowPlacementsMap, pendingRows, inflight, drags, clears, last,
          currentTab, structInvalid, unplacedInvalid, deleted, deletes, cleared,
          switches, sectionVars, shelfVars, searchVars, singleVars, dialogVars, listVars>>

\* --------------------------------------------------- search parameters
\* DEFAULT_FORM, with q standing for the three text fields q, title and author
\* (handleSearch treats them alike) and NoYear for year: undefined.
NoYear == 0
DEFAULT_FORM == [q |-> "", year |-> NoYear, page |-> 1, pageSize |-> 10]

Keywords == {"", "a", "b"}
Years == {NoYear, 1954}
PageSizes == {SmallPageSize, 10}

NoParams == [q |-> "", year |-> NoYear, page |-> 0, pageSize |-> 0]
NoResponse == [total |-> -1, page |-> 0, page_size |-> 0]

NoRow == 0
NoShelf == 0
NoBook == 0
NoSlot == 0

EmptyMap == [r \in Rows |-> << >>]

\* The prop book of PlacementDialog with the fields the dialog reads, and the
\* body of POST /api/books/{id}/placement.
BookProp(b, shelf, r, slot) ==
    [id |-> b, shelf_id |-> shelf, shelf_row_id |-> r, slot_index |-> slot]
NoBookProp == BookProp(NoBook, NoShelf, NoRow, NoSlot)
PlacementCall(b, r, slot) == [bookId |-> b, shelf_row_id |-> r, slot_index |-> slot]
NoPlacementCall == PlacementCall(NoBook, NoRow, NoSlot)

\* DragMeta (active.data.current) and DropMeta (over.data.current); NoOver is
\* event.over === null.
RowDrag(r, b) == [sourceType |-> "row", rowId |-> r, bookId |-> b]
UnplacedDrag(b) == [sourceType |-> "unplaced", rowId |-> NoRow, bookId |-> b]
RowDrop(r) == [targetType |-> "row", rowId |-> r, bookId |-> NoBook, slotIndex |-> NoSlot]
RowItemDrop(r, b) == [targetType |-> "row-item", rowId |-> r, bookId |-> b, slotIndex |-> NoSlot]
RowSlotDrop(r, s) == [targetType |-> "row-slot", rowId |-> r, bookId |-> NoBook, slotIndex |-> s]
NoOver == [targetType |-> "none", rowId |-> NoRow, bookId |-> NoBook, slotIndex |-> NoSlot]

\* A mutation in flight: the variables of the call, the values its mutate-level
\* callbacks close over, whether it is still the mutation its observer
\* (useMutation hook) is subscribed to, and whether the board that dispatched
\* it is still mounted. pre and index are history: the placement map when the
\* operation was dispatched and the index it asked for.
Mutation(hook, kind, bookId, rowId, slotIndex, sourceRowId, order, prevTarget, prevSource, prevUnplaced, shouldReorder, nextOrder, index) ==
    [hook |-> hook, kind |-> kind, current |-> TRUE, mounted |-> TRUE,
     bookId |-> bookId, rowId |-> rowId, slotIndex |-> slotIndex,
     sourceRowId |-> sourceRowId, order |-> order,
     previousTargetPlacements |-> prevTarget,
     previousSourcePlacements |-> prevSource,
     previousUnplaced |-> prevUnplaced,
     shouldReorderAfterMove |-> shouldReorder,
     nextTargetOrder |-> nextOrder,
     index |-> index,
     pre |-> rowPlacementsMap]

NoMutation ==
    [hook |-> "none", kind |-> "none", current |-> FALSE, mounted |-> FALSE,
     bookId |-> NoBook, rowId |-> NoRow, slotIndex |-> NoSlot,
     sourceRowId |-> NoRow, order |-> << >>,
     previousTargetPlacements |-> << >>,
     previousSourcePlacements |-> << >>,
     previousUnplaced |-> {},
     shouldReorderAfterMove |-> FALSE,
     nextTargetOrder |-> << >>,
     index |-> 0,
     pre |-> EmptyMap]

\* The history record of a step: the handler that ran, its inputs, the
\* mutation it dispatched or settled and the backend calls it issued.
Step(h, intent, active, over, op, ok, fired, issued) ==
    [h |-> h, intent |-> intent, active |-> active, over |-> over,
     op |-> op, ok |-> ok, fired |-> fired, issued |-> issued,
     bookId |-> NoBook, accepted |-> TRUE, shelfId |-> NoShelf, rowId |-> NoRow]

PlainStep(h) ==
    Step(h, "none", UnplacedDrag(NoBook), NoOver, NoMutation, TRUE, FALSE, {})

\* ------------------------------------------------- backend (from the spec)
RECURSIVE Without(_, _)
Without(placements, b) ==
    IF placements = << >> THEN << >>
    ELSE IF Head(placements).book_id = b
         THEN Without(Tail(placements), b)
         ELSE <<Head(placements)>> \o Without(Tail(placements), b)

\* POST /api/books/{id}/placement {shelf_row_id, slot_index}: the book leaves
\* its former row and takes the slot; the books at that slot and after it
\* move up by one when the slot is taken.
ServerPlace(s, b, r, slot) ==
    LET removed == [q \in Rows |-> Without(s[q], b)]
        taken == \E i \in 1..Len(removed[r]) : removed[r][i].slot_index = slot
        shifted == [i \in 1..Len(removed[r]) |->
                       IF taken /\ removed[r][i].slot_index >= slot
                       THEN [removed[r][i] EXCEPT !.slot_index = @ + 1]
                       ELSE removed[r][i]]
    IN  [removed EXCEPT ![r] = Append(shifted, Placement(b, slot))]

\* PUT /api/rows/{id}/order {book_ids}: applies the explicit order as slots
\* 1..N; rejected unless book_ids lists exactly the books of the row.
ServerAcceptsOrder(s, r, order) ==
    /\ Len(order) = Len(s[r])
    /\ Range(order) = BookSet(s[r])

ServerReorder(s, r, order) ==
    [s EXCEPT ![r] = [i \in 1..Len(s[r]) |->
        [s[r][i] EXCEPT !.slot_index =
            CHOOSE k \in 1..Len(order) : order[k] = s[r][i].book_id]]]

\* DELETE /api/books/{id}/placement: the slot is cleared, the other books of
\* the row keep their slots (a gap may remain).
ServerClear(s, b) == [q \in Rows |-> Without(s[q], b)]

ServerPlaced(s) == UNION {BookSet(s[r]) : r \in Rows}
ServerUnplaced(s) == Books \ ServerPlaced(s)

\* ------------------------------------------------------------------ Init
\* The board after its first load: both queries have resolved and the
\* snapshot effect has run. Books 1 and 2 stand in row 1 in the slots 1 and 2
\* (stored in the order 2, 1), book 3 in slot 1 of row 2, the other books are
\* unplaced.
InitialServer ==
    [r \in Rows |-> IF r = 1 THEN <<Placement(2, 2), Placement(1, 1)>>
                    ELSE IF r = 2 THEN <<Placement(3, 1)>>
                    ELSE << >>]

InitialServerFull ==
    [InitialServer EXCEPT ![2] = <<Placement(3, 1), Placement(4, 2)>>]

\* Row 1 after the placement of a book in slot 2 was cleared.
InitialServerGapped ==
    [InitialServer EXCEPT ![1] = <<Placement(2, 3), Placement(1, 1)>>]

\* Row 2 stands empty: book 3 is unplaced as well.
InitialServerSparse == [InitialServer EXCEPT ![2] = << >>]

\* No book stands on a shelf.
InitialServerBare == [r \in Rows |-> << >>]

\* The client once the board has loaded what the backend holds: the state of
\* the views apart from the lists the board shows, and the whole of it.
ViewsLoaded ==
    /\ structData = srv
    /\ structFetching = FALSE
    /\ unplacedFetching = FALSE
    /\ pendingRows = {}
    /\ inflight = {}
    /\ drags = 0
    /\ clears = 0
    /\ last = PlainStep("init")
    /\ currentTab = "overview"
    /\ structInvalid = FALSE
    /\ unplacedInvalid = FALSE
    /\ deleted = {}
    /\ deletes = 0
    /\ cleared = {}
    /\ switches = 0
    /\ liveShelves = Shelves
    /\ liveRows = Rows
    /\ selectedShelfId = NoShelf
    /\ shelvesData = {}
    /\ shelvesFetching = FALSE
    /\ form = DEFAULT_FORM
    /\ activeParams = NoParams
    /\ searchResponse = NoResponse
    /\ searchFetching = FALSE
    /\ pendingRowId = NoRow
    /\ snackbarOpen = FALSE
    /\ dialogOpen = FALSE
    /\ dialogBook = NoBookProp
    /\ selectedShelf = NoShelf
    /\ selectedRow = NoRow
    /\ selectedSlot = NoSlot
    /\ effectsRun = TRUE
    /\ placementCall = NoPlacementCall
    /\ placementsMade = 0

BoardLoaded ==
    /\ ViewsLoaded
    /\ unplacedData = ServerUnplaced(srv)
    /\ rowPlacementsMap = Snapshot(srv)

BoardInit ==
    /\ srv \in {InitialServer, InitialServerFull, InitialServerGapped}
    /\ BoardLoaded

\* No row section is followed.
SectionIdle ==
    /\ sectionCapacity = 0
    /\ sectionPlacements = << >>
    /\ sectionVisibleSlots = MIN_VISIBLE_SLOTS
    /\ sectionSlotOffset = 0

Init ==
    /\ BoardInit
    /\ SectionIdle

\* ------------------------------------------------------ what a row renders
TotalSlotsUnclamped(baseCount, capacity, visibleSlots) ==
    LET unbounded == ~(capacity > 0)
        hasRoomForNewPlacement == unbounded \/ baseCount < capacity
        minimumSlots == IF hasRoomForNewPlacement THEN baseCount + 1 ELSE baseCount
    IN  Max(minimumSlots, visibleSlots)

\* totalSlots of ShelfRowSection for a row of baseCount placements.
TotalSlots(baseCount, capacity, visibleSlots) ==
    LET unbounded == ~(capacity > 0)
        hasRoomForNewPlacement == unbounded \/ baseCount < capacity
        minimumSlots == IF hasRoomForNewPlacement THEN baseCount + 1 ELSE baseCount
        desired == Max(minimumSlots, visibleSlots)
    IN  IF unbounded THEN desired ELSE Min(desired, capacity)

\* placementBySlot.get(slot): the Map is filled in list order, so the last
\* placement with that slot_index wins; NoBook when the slot is open.
BookAtSlot(placements, slot) ==
    IF \E i \in 1..Len(placements) : placements[i].slot_index = slot
    THEN placements[CHOOSE i \in 1..Len(placements) :
                        /\ placements[i].slot_index = slot
                        /\ \A j \in (i + 1)..Len(placements) :
                               placements[j].slot_index # slot].book_id
    ELSE NoBook

\* The slot numbers the row can bring into its window by scrolling
\* (visibleSlotNumbers over every slotOffset in 0..maxOffset).
SlotNumbers(r, visibleSlots) ==
    1..TotalSlots(Len(rowPlacementsMap[r]), RowCapacity(r), visibleSlots)

\* The cards (SortablePlacementCard) and the placeholders (RowSlotPlaceholder)
\* an expanded row renders.
Cards(r, visibleSlots) ==
    {BookAtSlot(rowPlacementsMap[r], slot) : slot \in SlotNumbers(r, visibleSlots)} \ {NoBook}

Placeholders(r, visibleSlots) ==
    {slot \in SlotNumbers(r, visibleSlots) : BookAtSlot(rowPlacementsMap[r], slot) = NoBook}

\* visibleSlots of a row: useState(MIN_VISIBLE_SLOTS), the value it keeps while
\* the row's track is no wider than MIN_VISIBLE_SLOTS slots.
VisibleSlotsRange == {MIN_VISIBLE_SLOTS}

DragSources(visibleSlots) ==
    UNION {{RowDrag(r, b) : b \in Cards(r, visibleSlots)} : r \in Rows}
    \cup {UnplacedDrag(b) : b \in unplacedData}

DropTargets(visibleSlots) ==
    {NoOver}
    \cup {RowDrop(r) : r \in Rows}
    \cup UNION {{RowItemDrop(r, b) : b \in Cards(r, visibleSlots)} : r \in Rows}
    \cup UNION {{RowSlotDrop(r, slot) : slot \in Placeholders(r, visibleSlots)} : r \in Rows}

\* ----------------------------------------------------------- pending rows
\* markRowsPending(...rowIds) and clearRowsPending(...rowIds) on a set prev;
\* undefined ids (NoRow) are filtered out.
markRowsPending(prev, rowIds) == prev \cup (rowIds \ {NoRow})

clearRowsPending(prev, rowIds) == prev \ (rowIds \ {NoRow})

\* ------------------------------------------------------- handleDragEnd
resolveInsertionIndexUnclamped(rowId, slotIndex) ==
    LET placements == rowPlacementsMap[rowId]
    IN  IF slotIndex = NoSlot THEN Len(placements)
        ELSE Max(0, slotIndex - 1)

resolveInsertionIndexOneBased(rowId, slotIndex) ==
    LET placements == rowPlacementsMap[rowId]
    IN  IF slotIndex = NoSlot THEN Len(placements)
        ELSE Max(0, Min(slotIndex, Len(placements)))

\* resolveInsertionIndex(rowId, slotIndex)
resolveInsertionIndex(rowId, slotIndex) ==
    LET placements == rowPlacementsMap[rowId]
    IN  IF slotIndex = NoSlot THEN Len(placements)
        ELSE Max(0, Min(slotIndex - 1, Len(placements)))

NoIntent == [kind |-> "none", bookId |-> NoBook, sourceRowId |-> NoRow,
             rowId |-> NoRow, fromIndex |-> 0, index |-> 0]
ReorderIntent(b, r, from, to) ==
    [kind |-> "reorder", bookId |-> b, sourceRowId |-> r, rowId |-> r,
     fromIndex |-> from, index |-> to]
MoveIntent(b, src, tgt, index) ==
    [kind |-> "move", bookId |-> b, sourceRowId |-> src, rowId |-> tgt,
     fromIndex |-> 0, index |-> index]
AddIntent(b, tgt, index) ==
    [kind |-> "add", bookId |-> b, sourceRowId |-> NoRow, rowId |-> tgt,
     fromIndex |-> 0, index |-> index]

\* The branch of handleDragEnd a drop takes: which operation it calls, with
\* which arguments.
RowSourceIntent(active, over) ==
    LET sourceRowId == active.rowId
        sourcePlacements == rowPlacementsMap[sourceRowId]
        fromIndex == FindIndex(sourcePlacements, active.bookId)
        targetRowId == over.rowId
        targetPlacements == rowPlacementsMap[targetRowId]
    IN  IF fromIndex = -1 THEN NoIntent
        ELSE IF over.targetType = "row-item" THEN
            IF targetRowId = sourceRowId THEN
                LET toIndex == FindIndex(sourcePlacements, over.bookId)
                IN  IF toIndex = -1 \/ toIndex = fromIndex THEN NoIntent
                    ELSE ReorderIntent(active.bookId, sourceRowId, fromIndex, toIndex)
            ELSE
                LET insertionIndex == FindIndex(targetPlacements, over.bookId)
                IN  MoveIntent(active.bookId, sourceRowId, targetRowId,
                               IF insertionIndex = -1 THEN Len(targetPlacements)
                               ELSE insertionIndex)
        ELSE IF over.targetType = "row-slot" THEN
            LET insertionIndex == resolveInsertionIndex(targetRowId, over.slotIndex)
            IN  IF targetRowId = sourceRowId THEN
                    LET adjustedIndex == IF fromIndex < insertionIndex
                                         THEN Max(0, insertionIndex - 1)
                                         ELSE insertionIndex
                    IN  IF adjustedIndex = fromIndex THEN NoIntent
                        ELSE ReorderIntent(active.bookId, sourceRowId, fromIndex, adjustedIndex)
                ELSE MoveIntent(active.bookId, sourceRowId, targetRowId, insertionIndex)
        ELSE \* over.targetType = "row"
            IF targetRowId = sourceRowId THEN
                IF fromIndex = Len(sourcePlacements) - 1 THEN NoIntent
                ELSE ReorderIntent(active.bookId, sourceRowId, fromIndex,
                                   Len(sourcePlacements) - 1)
            ELSE MoveIntent(active.bookId, sourceRowId, targetRowId, Len(targetPlacements))

UnplacedSourceIntent(active, over) ==
    LET targetRowId == over.rowId
        targetPlacements == rowPlacementsMap[targetRowId]
    IN  IF over.targetType = "row-item" THEN
            LET insertionIndex == FindIndex(targetPlacements, over.bookId)
            IN  AddIntent(active.bookId, targetRowId,
                          IF insertionIndex = -1 THEN Len(targetPlacements)
                          ELSE insertionIndex)
        ELSE IF over.targetType = "row-slot" THEN
            AddIntent(active.bookId, targetRowId,
                      resolveInsertionIndex(targetRowId, over.slotIndex))
        ELSE AddIntent(active.bookId, targetRowId, Len(targetPlacements))

Intent(active, over) ==
    IF over = NoOver THEN NoIntent
    ELSE IF active.sourceType = "row" THEN RowSourceIntent(active, over)
    ELSE UnplacedSourceIntent(active, over)

\* ------------------------------------------------------------ mutations
\* A call to the backend: "placement" is POST /api/books/{bookId}/placement
\* {shelf_row_id: rowId, slot_index: slotIndex}, "order" is
\* PUT /api/rows/{rowId}/order {book_ids: order}.
Call(kind, bookId, rowId, slotIndex, order) ==
    [call |-> kind, bookId |-> bookId, rowId |-> rowId,
     slotIndex |-> slotIndex, order |-> order, shelfId |-> NoShelf]

CallOf(m) ==
    IF m.hook = "assign"
    THEN Call("placement", m.bookId, m.rowId, m.slotIndex, << >>)
    ELSE Call("order", NoBook, m.rowId, NoSlot, m.order)

\* mutate(variables, options) of a useMutation result: the hook's observer
\* leaves the mutation it was subscribed to and subscribes to the new one, so
\* the callbacks passed to an earlier mutate() of the same hook no longer run;
\* the callbacks of the useMutation options run for every mutation.
Mutate(ops, m) ==
    {IF o.hook = m.hook THEN [o EXCEPT !.current = FALSE] ELSE o : o \in ops} \cup {m}

AddMutationZeroBased(book, targetRowId, targetIndex) ==
    Mutation("assign", "add", book, targetRowId, targetIndex, NoRow, << >>,
             rowPlacementsMap[targetRowId], << >>, unplacedData, FALSE, << >>,
             targetIndex)

\* addBookToRow: the variables and closure of assignPlacementMutation.mutate.
AddMutation(book, targetRowId, targetIndex) ==
    Mutation("assign", "add", book, targetRowId, targetIndex + 1, NoRow, << >>,
             rowPlacementsMap[targetRowId], << >>, unplacedData, FALSE, << >>,
             targetIndex)

\* moveBookBetweenRows: the placements of both rows after the updater of
\* setRowPlacementsMap, and the variables and closure of the mutate call.
MovedMapRenumberingAll(prev, bookId, sourceRowId, targetRowId, targetIndex) ==
    LET source == prev[sourceRowId]
        target == prev[targetRowId]
        movingIndex == FindIndex(source, bookId)
    IN  IF movingIndex = -1 THEN prev
        ELSE [r \in DOMAIN prev |->
                 reindexPlacements(
                     IF r = sourceRowId THEN SpliceOut(source, movingIndex)
                     ELSE IF r = targetRowId
                          THEN SpliceIn(target, targetIndex, source[movingIndex + 1])
                          ELSE prev[r])]

MovedMap(prev, bookId, sourceRowId, targetRowId, targetIndex) ==
    LET source == prev[sourceRowId]
        target == prev[targetRowId]
        movingIndex == FindIndex(source, bookId)
    IN  IF movingIndex = -1 THEN prev
        ELSE [prev EXCEPT
                 ![sourceRowId] = reindexPlacements(SpliceOut(source, movingIndex)),
                 ![targetRowId] = reindexPlacements(
                                      SpliceIn(target, targetIndex, source[movingIndex + 1]))]

MoveMutation(bookId, sourceRowId, targetRowId, targetIndex) ==
    LET previousTargetPlacements == rowPlacementsMap[targetRowId]
        initialTargetLength == Len(previousTargetPlacements)
        movingIndex == FindIndex(rowPlacementsMap[sourceRowId], bookId)
        nextTargetOrder ==
            IF movingIndex = -1 THEN << >>
            ELSE BookIds(MovedMap(rowPlacementsMap, bookId, sourceRowId,
                                  targetRowId, targetIndex)[targetRowId])
    IN  Mutation("assign", "move", bookId, targetRowId, initialTargetLength + 1,
                 sourceRowId, << >>,
                 previousTargetPlacements, rowPlacementsMap[sourceRowId], {},
                 targetIndex # initialTargetLength, nextTargetOrder, targetIndex)

\* reorderWithinRow(toIndex) of handleDragEnd.
ReorderedRow(sourceRowId, fromIndex, toIndex) ==
    reindexPlacements(arrayMove(rowPlacementsMap[sourceRowId], fromIndex, toIndex))

ReorderMutationByPlacement(bookId, sourceRowId, fromIndex, toIndex) ==
    Mutation("assign", "within", bookId, sourceRowId, toIndex + 1, sourceRowId,
             BookIds(ReorderedRow(sourceRowId, fromIndex, toIndex)),
             << >>, rowPlacementsMap[sourceRowId], {}, FALSE, << >>, toIndex)

ReorderMutation(bookId, sourceRowId, fromIndex, toIndex) ==
    Mutation("reorder", "within", bookId, sourceRowId, NoSlot, sourceRowId,
             BookIds(ReorderedRow(sourceRowId, fromIndex, toIndex)),
             << >>, rowPlacementsMap[sourceRowId], {}, FALSE, << >>, toIndex)

\* reorderMutation.mutate({rowId: targetRowId, order: nextTargetOrder}) in the
\* onSuccess of a move: no callbacks are passed.
FollowUpMutation(m) ==
    Mutation("reorder", "followup", m.bookId, m.rowId, NoSlot, NoRow,
             m.nextTargetOrder, << >>, << >>, {}, FALSE, << >>, m.index)

MutationOf(it) ==
    IF it.kind = "add" THEN AddMutation(it.bookId, it.rowId, it.index)
    ELSE IF it.kind = "move"
         THEN MoveMutation(it.bookId, it.sourceRowId, it.rowId, it.index)
    ELSE IF it.kind = "reorder"
         THEN ReorderMutation(it.bookId, it.sourceRowId, it.fromIndex, it.index)
    ELSE NoMutation

\* ---------------------------------------------------------- operations
addBookToRow(book, targetRowId, targetIndex) ==
    /\ rowPlacementsMap' =
           [rowPlacementsMap EXCEPT ![targetRowId] =
               reindexPlacements(SpliceIn(@, targetIndex, buildPlacementFromBook(book)))]
    /\ pendingRows' = markRowsPending(pendingRows, {targetRowId})
    /\ inflight' = Mutate(inflight, AddMutation(book, targetRowId, targetIndex))
    /\ unplacedData' = unplacedData \ {book}

moveBookBetweenRows(bookId, sourceRowId, targetRowId, targetIndex) ==
    /\ sourceRowId # targetRowId
    /\ rowPlacementsMap' =
           MovedMap(rowPlacementsMap, bookId, sourceRowId, targetRowId, targetIndex)
    /\ pendingRows' = markRowsPending(pendingRows, {sourceRowId, targetRowId})
    /\ inflight' = Mutate(inflight,
                          MoveMutation(bookId, sourceRowId, targetRowId, targetIndex))
    /\ UNCHANGED unplacedData

reorderWithinRow(bookId, sourceRowId, fromIndex, toIndex) ==
    /\ rowPlacementsMap' =
           [rowPlacementsMap EXCEPT ![sourceRowId] =
               ReorderedRow(sourceRowId, fromIndex, toIndex)]
    /\ pendingRows' = markRowsPending(pendingRows, {sourceRowId})
    /\ inflight' = Mutate(inflight,
                          ReorderMutation(bookId, sourceRowId, fromIndex, toIndex))
    /\ UNCHANGED unplacedData

\* The variables of the backend's book table, of the tab bar and of the
\* row section that an action of the board leaves alone.
tabVars == <<currentTab, deleted, deletes, cleared, switches>>

\* handleDragEnd(event): the drag source and the drop target are among those
\* the board renders; a drop that resolves to no operation returns early.
\* budget bounds the number of effective drops of a session.
DragEnd(budget) ==
    /\ currentTab = "overview"
    /\ drags < budget
    /\ \E visibleSlots \in VisibleSlotsRange :
       \E active \in DragSources(visibleSlots), over \in DropTargets(visibleSlots) :
        LET it == Intent(active, over)
        IN  /\ last' = Step("handleDragEnd", it.kind, active, over, MutationOf(it),
                            TRUE, FALSE,
                            IF it.kind = "none" THEN {} ELSE {CallOf(MutationOf(it))})
            /\ UNCHANGED <<srv, structData, structFetching, unplacedFetching, clears>>
            /\ UNCHANGED <<structInvalid, unplacedInvalid, tabVars, sectionVars, shelfVars, searchVars, singleVars, dialogVars, listVars>>
            /\ \/ /\ it.kind = "none"
                  /\ UNCHANGED <<rowPlacementsMap, pendingRows, inflight,
                                 unplacedData, drags>>
               \/ /\ it.kind = "add"
                  /\ drags' = drags + 1
                  /\ addBookToRow(it.bookId, it.rowId, it.index)
               \/ /\ it.kind = "move"
                  /\ drags' = drags + 1
                  /\ moveBookBetweenRows(it.bookId, it.sourceRowId, it.rowId, it.index)
               \/ /\ it.kind = "reorder"
                  /\ drags' = drags + 1
                  /\ reorderWithinRow(it.bookId, it.sourceRowId, it.fromIndex, it.index)

handleDragEnd == DragEnd(MaxDrags)

\* queryClient.invalidateQueries({queryKey}): a query a mounted view observes
\* is refetched at once, a query without observer is only marked invalidated
\* and is refetched when a view that uses it mounts. Both operators take the
\* flag of the query and whether the call is made.
BoardObserves == currentTab = "overview"
FetchingAfterInvalidate(fetching, called) == fetching \/ (called /\ BoardObserves)
InvalidAfterInvalidate(invalid, called) == invalid \/ (called /\ ~BoardObserves)

\* A mutation settles: the backend has applied the call (ok) or rejected it,
\* then the callbacks run in the order of the library: onSuccess/onError and
\* onSettled of the useMutation options, then, when the hook's observer is
\* still subscribed to this mutation, those passed to mutate(). The state
\* setters of a board that was unmounted meanwhile have no effect.
RolledBackAlsoAfterFollowUp(m) ==
    IF m.kind = "add"
    THEN [rowPlacementsMap EXCEPT ![m.rowId] = m.previousTargetPlacements]
    ELSE IF m.kind = "move"
    THEN [rowPlacementsMap EXCEPT ![m.sourceRowId] = m.previousSourcePlacements,
                                  ![m.rowId] = m.previousTargetPlacements]
    ELSE IF m.kind = "within"
    THEN [rowPlacementsMap EXCEPT ![m.sourceRowId] = m.previousSourcePlacements]
    ELSE [rowPlacementsMap EXCEPT ![m.rowId] = SortBySlot(structData[m.rowId])]

RolledBack(m) ==
    IF m.kind = "add"
    THEN [rowPlacementsMap EXCEPT ![m.rowId] = m.previousTargetPlacements]
    ELSE IF m.kind = "move"
    THEN [rowPlacementsMap EXCEPT ![m.sourceRowId] = m.previousSourcePlacements,
                                  ![m.rowId] = m.previousTargetPlacements]
    ELSE IF m.kind = "within"
    THEN [rowPlacementsMap EXCEPT ![m.sourceRowId] = m.previousSourcePlacements]
    ELSE rowPlacementsMap

settle ==
    \E m \in inflight, ok \in BOOLEAN :
        /\ (ok /\ m.hook = "reorder") => ServerAcceptsOrder(srv, m.rowId, m.order)
        /\ (ok /\ m.hook = "assign") => m.bookId \notin deleted
        /\ LET fired == m.current
               followUp == /\ fired /\ ok /\ m.kind = "move"
                           /\ m.shouldReorderAfterMove
                           /\ Len(m.nextTargetOrder) > 0
               afterOptions ==
                   IF m.hook = "assign" /\ m.mounted
                   THEN clearRowsPending(pendingRows, {m.rowId, m.sourceRowId})
                   ELSE pendingRows
               rest == inflight \ {m}
           IN  /\ srv' = IF ~ok THEN srv
                         ELSE IF m.hook = "assign"
                              THEN ServerPlace(srv, m.bookId, m.rowId, m.slotIndex)
                              ELSE ServerReorder(srv, m.rowId, m.order)
               /\ structFetching' = FetchingAfterInvalidate(structFetching, TRUE)
               /\ structInvalid' = InvalidAfterInvalidate(structInvalid, TRUE)
               /\ unplacedFetching' =
                      FetchingAfterInvalidate(unplacedFetching, m.hook = "assign")
               /\ unplacedInvalid' =
                      InvalidAfterInvalidate(unplacedInvalid, m.hook = "assign")
               /\ rowPlacementsMap' = IF fired /\ ~ok THEN RolledBack(m)
                                      ELSE rowPlacementsMap
               /\ unplacedData' = IF fired /\ ~ok /\ m.kind = "add"
                                  THEN m.previousUnplaced ELSE unplacedData
               /\ pendingRows' = IF fired /\ m.kind = "within"
                                 THEN clearRowsPending(afterOptions, {m.sourceRowId})
                                 ELSE afterOptions
               /\ inflight' = IF followUp THEN Mutate(rest, FollowUpMutation(m))
                              ELSE rest
               /\ last' = Step("settle", "none", UnplacedDrag(NoBook), NoOver, m, ok,
                               fired,
                               IF followUp THEN {CallOf(FollowUpMutation(m))} ELSE {})
               /\ UNCHANGED <<structData, drags, clears>>
               /\ UNCHANGED <<tabVars, sectionVars, shelfVars, searchVars, singleVars, dialogVars, listVars>>

\* The fetch of "shelf-structure" resolves. The cache keeps the former data
\* object when the response is deeply equal to it (structural sharing), and
\* the snapshot effect of a mounted board runs only when the data object
\* changed.
structureRefetched ==
    /\ structFetching
    /\ structFetching' = FALSE
    /\ structInvalid' = FALSE
    /\ structData' = srv
    /\ rowPlacementsMap' = IF BoardObserves /\ srv # structData THEN Snapshot(srv)
                           ELSE rowPlacementsMap
    /\ last' = PlainStep("structureRefetched")
    /\ UNCHANGED <<srv, unplacedData, unplacedFetching, pendingRows, inflight,
                   drags, clears>>
    /\ UNCHANGED <<unplacedInvalid, tabVars, sectionVars, shelfVars, searchVars, singleVars, dialogVars, listVars>>

\* The fetch of "unplaced-books" resolves.
unplacedRefetched ==
    /\ unplacedFetching
    /\ unplacedFetching' = FALSE
    /\ unplacedInvalid' = FALSE
    /\ unplacedData' = ServerUnplaced(srv) \ deleted
    /\ last' = PlainStep("unplacedRefetched")
    /\ UNCHANGED <<srv, structData, structFetching, rowPlacementsMap, pendingRows,
                   inflight, drags, clears>>
    /\ UNCHANGED <<structInvalid, tabVars, sectionVars, shelfVars, searchVars, singleVars, dialogVars, listVars>>

\* ------------------------------------------------- the collection view
\* The history record of a step of the collection view: the book it is about,
\* whether the user accepted the prompt, whether the backend applied the call
\* and the calls issued.
ViewStep(h, bookId, accepted, ok, issued) ==
    [Step(h, "none", UnplacedDrag(NoBook), NoOver, NoMutation, ok, FALSE, issued)
        EXCEPT !.bookId = bookId, !.accepted = accepted]

\* The Tabs of App: the panel of the selected tab alone is rendered, so the
\* board is unmounted while the collection is shown. Its state is dropped, the
\* observers of its mutations unsubscribe, and the mutations in flight go on.
showCollection ==
    /\ currentTab = "overview"
    /\ switches < MaxSwitches
    /\ switches' = switches + 1
    /\ currentTab' = "collection"
    /\ rowPlacementsMap' = EmptyMap
    /\ pendingRows' = {}
    /\ inflight' = {[m EXCEPT !.current = FALSE, !.mounted = FALSE] : m \in inflight}
    /\ last' = PlainStep("showCollection")
    /\ UNCHANGED <<srv, structData, structFetching, unplacedData, unplacedFetching,
                   drags, clears, structInvalid, unplacedInvalid, deleted, deletes,
                   cleared, sectionVars, shelfVars, searchVars, singleVars, dialogVars, listVars>>

\* The board mounts again: the snapshot effect runs on the cached data, and a
\* query is refetched when it was invalidated or when its data is older than
\* its staleTime of 30 s (agedStructure, agedUnplaced).
showOverview ==
    /\ currentTab = "collection"
    /\ \E agedStructure, agedUnplaced \in BOOLEAN :
        /\ currentTab' = "overview"
        /\ rowPlacementsMap' = Snapshot(structData)
        /\ structFetching' = (structFetching \/ structInvalid \/ agedStructure)
        /\ unplacedFetching' = (unplacedFetching \/ unplacedInvalid \/ agedUnplaced)
        /\ structInvalid' = FALSE
        /\ unplacedInvalid' = FALSE
        /\ last' = PlainStep("showOverview")
        /\ UNCHANGED <<srv, structData, unplacedData, pendingRows, inflight, drags,
                       clears, deleted, deletes, cleared, switches, sectionVars, shelfVars, searchVars, singleVars, dialogVars, listVars>>

\* The books whose placement the collection view clears.
ClearedBooks == {1, NumBooks}

\* onRemovePlacement of a placed book's card: clearPlacementMutation.mutate and
\* its settlement. The backend clears the slot; onSuccess invalidates
\* "inventory-search" and "shelf-structure", onError only notifies.
clearPlacement ==
    /\ currentTab = "collection"
    /\ clears < MaxClears
    /\ \E b \in ServerPlaced(srv) \cap ClearedBooks, ok \in BOOLEAN :
        /\ clears' = clears + 1
        /\ srv' = IF ok THEN ServerClear(srv, b) ELSE srv
        /\ cleared' = IF ok THEN cleared \cup {b} ELSE cleared
        /\ structFetching' = FetchingAfterInvalidate(structFetching, ok)
        /\ structInvalid' = InvalidAfterInvalidate(structInvalid, ok)
        /\ last' = ViewStep("clearPlacement", b, TRUE, ok,
                            {Call("clear-placement", b, NoRow, NoSlot, << >>)})
        /\ UNCHANGED <<structData, unplacedData, unplacedFetching, rowPlacementsMap,
                       pendingRows, inflight, drags, unplacedInvalid, currentTab,
                       deleted, deletes, switches, sectionVars, shelfVars, searchVars, singleVars, dialogVars, listVars>>

\* The books the collection view deletes.
DeletedBooks == {NumBooks}

\* The calls a delete handler issues without asking.
IssuedWithoutPrompt(accepted, call) == {call}

\* if (window.confirm(...)) { mutation.mutate(id); }: the calls a delete
\* handler issues, given the user's answer to the prompt.
IssuedOnPrompt(accepted, call) == IF accepted THEN {call} ELSE {}

\* handleDelete(book) of a card of the collection view: window.confirm, then
\* deleteMutation.mutate and its settlement. The backend removes the book and
\* its placement; onSuccess invalidates "inventory-search" and
\* "shelf-structure", onError only notifies.
handleDelete ==
    /\ currentTab = "collection"
    /\ deletes < MaxDeletes
    /\ \E b \in DeletedBooks \ deleted, accepted \in BOOLEAN, ok \in BOOLEAN :
        LET done == accepted /\ ok
        IN  /\ ~accepted => ~ok
            /\ deletes' = deletes + 1
            /\ deleted' = IF done THEN deleted \cup {b} ELSE deleted
            /\ srv' = IF done THEN ServerClear(srv, b) ELSE srv
            /\ structFetching' = FetchingAfterInvalidate(structFetching, done)
            /\ structInvalid' = InvalidAfterInvalidate(structInvalid, done)
            /\ last' = ViewStep("handleDelete", b, accepted, ok,
                                IssuedOnPrompt(accepted,
                                    Call("delete-book", b, NoRow, NoSlot, << >>)))
            /\ UNCHANGED <<structData, unplacedData, unplacedFetching,
                           rowPlacementsMap, pendingRows, inflight, drags, clears,
                           unplacedInvalid, currentTab, cleared, switches,
                           sectionVars, shelfVars, searchVars, singleVars, dialogVars, listVars>>

\* A session on the board (Spec) and a session that leaves the board for the
\* collection and comes back (TabSpec).
Next ==
    \/ handleDragEnd
    \/ settle
    \/ structureRefetched
    \/ unplacedRefetched

handleDragEndOnce == DragEnd(MaxTabDrags)

TabInit ==
    /\ Init
    /\ srv = InitialServer

TabNext ==
    \/ handleDragEndOnce
    \/ settle
    \/ structureRefetched
    \/ unplacedRefetched
    \/ showCollection
    \/ showOverview
    \/ clearPlacement
    \/ handleDelete

TabSpec == TabInit /\ [][TabNext]_vars

Spec == Init /\ [][Next]_vars

\* ------------------------------------------------- the shelves view
\* The rows of the board belong to the first shelf; the other shelves have no
\* row.
ShelfOf(r) == 1
RowsOf(s) == {r \in Rows : ShelfOf(r) = s}

\* shelvesQuery.data[0].id, NoShelf when the list is empty.
FirstShelf(shelves) ==
    IF shelves = {} THEN NoShelf
    ELSE CHOOSE s \in shelves : \A t \in shelves : s <= t

\* The backend deletes a row that holds no book, and a shelf whose rows hold
\* no book.
ServerAcceptsRowDelete(s, rows, r) == r \in rows /\ s[r] = << >>
ServerAcceptsShelfDelete(s, shelves, rows, shelf) ==
    /\ shelf \in shelves
    /\ \A r \in rows \cap RowsOf(shelf) : s[r] = << >>

ShelfCall(kind, shelf, r) ==
    [Call(kind, NoBook, r, NoSlot, << >>) EXCEPT !.shelfId = shelf]

\* The history record of a step of the shelves view.
ShelfStep(h, shelf, r, accepted, ok, issued) ==
    [ViewStep(h, NoBook, accepted, ok, issued) EXCEPT !.shelfId = shelf, !.rowId = r]

\* The effect on [shelvesQuery.data, selectedShelfId]: without a selection the
\* first shelf of a list that is not empty is selected.
AutoSelected(data, selected) ==
    IF data # {} /\ selected = NoShelf THEN FirstShelf(data) ELSE selected

\* The Shelves & Rows tab is selected: ShelvesView mounts with no selection,
\* its query of "shelves" fetches, and its effect runs on the list the cache
\* holds.
showShelves ==
    /\ currentTab = "collection"
    /\ currentTab' = "shelves"
    /\ selectedShelfId' = AutoSelected(shelvesData, NoShelf)
    /\ shelvesFetching' = TRUE
    /\ last' = PlainStep("showShelves")
    /\ UNCHANGED <<srv, structData, structFetching, unplacedData, unplacedFetching,
                   rowPlacementsMap, pendingRows, inflight, drags, clears,
                   structInvalid, unplacedInvalid, deleted, deletes, cleared,
                   switches, liveShelves, liveRows, shelvesData, sectionVars,
                   searchVars, singleVars, dialogVars>>

\* The fetch of "shelves" resolves; the effect of a mounted ShelvesView runs on
\* the new list.
shelvesRefetched ==
    /\ shelvesFetching
    /\ shelvesFetching' = FALSE
    /\ shelvesData' = liveShelves
    /\ selectedShelfId' = IF currentTab = "shelves"
                          THEN AutoSelected(liveShelves, selectedShelfId)
                          ELSE selectedShelfId
    /\ last' = PlainStep("shelvesRefetched")
    /\ UNCHANGED <<srv, structData, structFetching, unplacedData, unplacedFetching,
                   rowPlacementsMap, pendingRows, inflight, drags, clears,
                   structInvalid, unplacedInvalid, currentTab, deleted, deletes,
                   cleared, switches, liveShelves, liveRows, sectionVars,
                   searchVars, singleVars, dialogVars>>

\* The My Collection tab is selected again: ShelvesView unmounts and its
\* selection is dropped.
leaveShelves ==
    /\ currentTab = "shelves"
    /\ currentTab' = "collection"
    /\ selectedShelfId' = NoShelf
    /\ last' = PlainStep("leaveShelves")
    /\ UNCHANGED <<srv, structData, structFetching, unplacedData, unplacedFetching,
                   rowPlacementsMap, pendingRows, inflight, drags, clears,
                   structInvalid, unplacedInvalid, deleted, deletes, cleared,
                   switches, liveShelves, liveRows, sectionVars, searchVars, singleVars, dialogVars, listVars>>

\* onClick of a shelf of the list: setSelectedShelfId(shelf.id).
selectShelf ==
    /\ currentTab = "shelves"
    /\ \E shelf \in shelvesData \ {selectedShelfId} :
        /\ selectedShelfId' = shelf
        /\ last' = ShelfStep("selectShelf", shelf, NoRow, TRUE, TRUE, {})
    /\ UNCHANGED <<srv, structData, structFetching, unplacedData, unplacedFetching,
                   rowPlacementsMap, pendingRows, inflight, drags, clears,
                   structInvalid, unplacedInvalid, currentTab, deleted, deletes,
                   cleared, switches, liveShelves, liveRows, sectionVars, searchVars, singleVars, dialogVars, listVars>>

\* onClick of "Delete shelf": window.confirm, then deleteShelfMutation.mutate
\* and its settlement. onSuccess invalidates "shelves" and "shelf-structure"
\* and drops the selection, and the effect runs on the list of the cache, which
\* the refetch has not replaced yet; onError only notifies.
handleDeleteShelf ==
    /\ currentTab = "shelves"
    /\ \E shelf \in shelvesData, accepted \in BOOLEAN, ok \in BOOLEAN :
        LET done == accepted /\ ok
        IN  /\ ~accepted => ~ok
            /\ ok => ServerAcceptsShelfDelete(srv, liveShelves, liveRows, shelf)
            /\ liveShelves' = IF done THEN liveShelves \ {shelf} ELSE liveShelves
            /\ liveRows' = IF done THEN liveRows \ RowsOf(shelf) ELSE liveRows
            /\ selectedShelfId' = IF done THEN AutoSelected(shelvesData, NoShelf)
                                  ELSE selectedShelfId
            /\ shelvesFetching' = (shelvesFetching \/ done)
            /\ structFetching' = FetchingAfterInvalidate(structFetching, done)
            /\ structInvalid' = InvalidAfterInvalidate(structInvalid, done)
            /\ last' = ShelfStep("handleDeleteShelf", shelf, NoRow, accepted, ok,
                                 IssuedOnPrompt(accepted,
                                     ShelfCall("delete-shelf", shelf, NoRow)))
            /\ UNCHANGED <<srv, structData, unplacedData, unplacedFetching,
                           rowPlacementsMap, pendingRows, inflight, drags, clears,
                           unplacedInvalid, currentTab, deleted, deletes, cleared,
                           switches, shelvesData, sectionVars, searchVars, singleVars,
                           dialogVars>>

\* onClick of "Delete row" of a row of the selected shelf: window.confirm,
\* then deleteRowMutation.mutate and its settlement. onSuccess invalidates the
\* rows of the selected shelf and "shelf-structure"; onError only notifies.
handleDeleteRow ==
    /\ currentTab = "shelves"
    /\ selectedShelfId # NoShelf
    /\ \E r \in liveRows \cap RowsOf(selectedShelfId), accepted \in BOOLEAN, ok \in BOOLEAN :
        LET done == accepted /\ ok
        IN  /\ ~accepted => ~ok
            /\ ok => ServerAcceptsRowDelete(srv, liveRows, r)
            /\ liveRows' = IF done THEN liveRows \ {r} ELSE liveRows
            /\ structFetching' = FetchingAfterInvalidate(structFetching, done)
            /\ structInvalid' = InvalidAfterInvalidate(structInvalid, done)
            /\ last' = ShelfStep("handleDeleteRow", selectedShelfId, r, accepted, ok,
                                 IssuedOnPrompt(accepted,
                                     ShelfCall("delete-row", selectedShelfId, r)))
            /\ UNCHANGED <<srv, structData, unplacedData, unplacedFetching,
                           rowPlacementsMap, pendingRows, inflight, drags, clears,
                           unplacedInvalid, currentTab, deleted, deletes, cleared,
                           switches, liveShelves, selectedShelfId, sectionVars, searchVars, singleVars, dialogVars, listVars>>

\* A session that leaves the board for the collection and the shelves views
\* (ManageSpec).
ManageInit ==
    /\ srv \in {InitialServer, InitialServerSparse, InitialServerBare}
    /\ BoardLoaded
    /\ SectionIdle

ManageNext ==
    \/ showCollection
    \/ clearPlacement
    \/ handleDelete
    \/ showShelves
    \/ leaveShelves
    \/ shelvesRefetched
    \/ selectShelf
    \/ handleDeleteShelf
    \/ handleDeleteRow

ManageSpec == ManageInit /\ [][ManageNext]_vars

\* ------------------------------------------------- the search view
\* The board without its history: what the other views leave alone.
boardState == <<srv, structData, structFetching, unplacedData, unplacedFetching,
                rowPlacementsMap, pendingRows, inflight, drags, clears,
                structInvalid, unplacedInvalid, deleted, deletes, cleared, switches>>

\* GET /api/search: the number of documents that match, and the response,
\* which repeats the page and the page size of the request.
ServerTotal(params) ==
    LET matching == IF params.q = "a" THEN LargeTotal
                    ELSE IF params.q = "b" THEN SmallTotal
                    ELSE 0
    IN  IF params.year = NoYear THEN matching ELSE matching \div 4

SearchResponse(params) ==
    [total |-> ServerTotal(params), page |-> params.page, page_size |-> params.pageSize]

\* searchQuery.data ?? { results: [], total: 0, page: 1, page_size: form.pageSize }
searchData(response, f) ==
    IF response = NoResponse THEN [total |-> 0, page |-> 1, page_size |-> f.pageSize]
    ELSE response

\* Math.ceil(a / b) for a >= 0 and b >= 1.
Ceil(a, b) == (a + b - 1) \div b

totalPagesRoundedDown(data, f) ==
    Max(1, (IF data.total # 0 THEN data.total ELSE 0)
               \div (IF data.page_size # 0 THEN data.page_size ELSE f.pageSize))

\* Math.max(1, Math.ceil((searchData.total || 0) / (searchData.page_size || form.pageSize)))
totalPages(data, f) ==
    Max(1, Ceil(IF data.total # 0 THEN data.total ELSE 0,
                IF data.page_size # 0 THEN data.page_size ELSE f.pageSize))

\* The pagination controls are rendered when activeParams is set; disabled of
\* the Previous and of the Next button.
PaginationShown == activeParams # NoParams
PreviousDisabled == searchFetching \/ activeParams.page <= 1
NextDisabled ==
    \/ searchFetching
    \/ searchData(searchResponse, form).page
           >= totalPages(searchData(searchResponse, form), form)

\* handleSearch(override): { ...form, ...override, year: ... } with the page
\* of override.
searchParams(f, page) == [q |-> f.q, year |-> f.year, page |-> page, pageSize |-> f.pageSize]

\* setActiveParams(params): a new query key starts a fetch, and the data of
\* the former key stays as placeholder data (keepPreviousData).
Searched(params) ==
    /\ activeParams' = params
    /\ searchFetching' = (searchFetching \/ params # activeParams)
    /\ UNCHANGED <<form, searchResponse>>

\* The Search Library tab is selected: the board unmounts as it does for the
\* collection, and SearchView mounts with the default form and no query.
showSearch ==
    /\ currentTab = "overview"
    /\ currentTab' = "search"
    /\ rowPlacementsMap' = EmptyMap
    /\ pendingRows' = {}
    /\ inflight' = {[m EXCEPT !.current = FALSE, !.mounted = FALSE] : m \in inflight}
    /\ form' = DEFAULT_FORM
    /\ activeParams' = NoParams
    /\ searchResponse' = NoResponse
    /\ searchFetching' = FALSE
    /\ last' = PlainStep("showSearch")
    /\ UNCHANGED <<srv, structData, structFetching, unplacedData, unplacedFetching,
                   drags, clears, structInvalid, unplacedInvalid, deleted, deletes,
                   cleared, switches, sectionVars, shelfVars, singleVars, dialogVars, listVars>>

\* onChange of a field of the form: setForm.
editForm ==
    /\ currentTab = "search"
    /\ \E q \in Keywords, year \in Years, pageSize \in PageSizes :
        /\ form' = [form EXCEPT !.q = q, !.year = year, !.pageSize = Max(1, pageSize)]
        /\ form' # form
    /\ last' = PlainStep("editForm")
    /\ UNCHANGED <<activeParams, searchResponse, searchFetching>>
    /\ UNCHANGED <<boardState, currentTab, sectionVars, shelfVars, singleVars, dialogVars, listVars>>

\* onClick of Search: handleSearch({ page: 1 }).
handleSearch ==
    /\ currentTab = "search"
    /\ Searched(searchParams(form, 1))
    /\ last' = PlainStep("handleSearch")
    /\ UNCHANGED <<boardState, currentTab, sectionVars, shelfVars, singleVars, dialogVars, listVars>>

\* onClick of Previous: handleSearch({ page: activeParams.page - 1 }).
handlePrevious ==
    /\ currentTab = "search"
    /\ PaginationShown
    /\ ~PreviousDisabled
    /\ Searched(searchParams(form, activeParams.page - 1))
    /\ last' = PlainStep("handlePrevious")
    /\ UNCHANGED <<boardState, currentTab, sectionVars, shelfVars, singleVars, dialogVars, listVars>>

\* onClick of Next: handleSearch({ page: activeParams.page + 1 }).
handleNext ==
    /\ currentTab = "search"
    /\ PaginationShown
    /\ ~NextDisabled
    /\ Searched(searchParams(form, activeParams.page + 1))
    /\ last' = PlainStep("handleNext")
    /\ UNCHANGED <<boardState, currentTab, sectionVars, shelfVars, singleVars, dialogVars, listVars>>

\* handleReset: the default form and no query; the data of the former key
\* stays as placeholder data of the disabled query.
handleReset ==
    /\ currentTab = "search"
    /\ form' = DEFAULT_FORM
    /\ activeParams' = NoParams
    /\ searchFetching' = FALSE
    /\ last' = PlainStep("handleReset")
    /\ UNCHANGED searchResponse
    /\ UNCHANGED <<boardState, currentTab, sectionVars, shelfVars, singleVars, dialogVars, listVars>>

\* The fetch of the active query resolves with the response of the backend, or
\* fails for good, which leaves the query without data.
searchSettled ==
    /\ currentTab = "search"
    /\ searchFetching
    /\ \E ok \in BOOLEAN :
        /\ searchResponse' = IF ok THEN SearchResponse(activeParams) ELSE NoResponse
        /\ last' = [PlainStep("searchSettled") EXCEPT !.ok = ok]
    /\ searchFetching' = FALSE
    /\ UNCHANGED <<form, activeParams>>
    /\ UNCHANGED <<boardState, currentTab, sectionVars, shelfVars, singleVars, dialogVars, listVars>>

\* A session in the search view (SearchSpec).
SearchInit ==
    /\ Init
    /\ srv = InitialServer

SearchNext ==
    \/ showSearch
    \/ editForm
    \/ handleSearch
    \/ handlePrevious
    \/ handleNext
    \/ handleReset
    \/ searchSettled

SearchSpec == SearchInit /\ [][SearchNext]_vars

\* ------------------------------ the single-row board (views/ShelfOverview)
\* handleRowDragEnd: arrayMove(rowPlacements, oldIndex, newIndex) renumbered
\* from 1.
updatedRow(rowPlacements, oldIndex, newIndex) ==
    reindexPlacements(arrayMove(rowPlacements, oldIndex, newIndex))

\* The variables of reorderMutation.mutate of handleRowDragEnd, with the list
\* the row showed before (the code keeps no copy of it).
RowReorderMutation(rowId, active, oldIndex, newIndex) ==
    Mutation("reorder", "within", active, rowId, NoSlot, rowId,
             BookIds(updatedRow(rowPlacementsMap[rowId], oldIndex, newIndex)),
             << >>, rowPlacementsMap[rowId], {}, FALSE, << >>, newIndex)

\* handleRowDragEnd(event) of a row: a drop on nothing, on the dragged card
\* itself or on a card the row does not hold returns early.
handleRowDragEnd ==
    /\ currentTab = "overview"
    /\ drags < MaxDrags
    /\ \E rowId \in Rows :
        \E active \in BookSet(rowPlacementsMap[rowId]), over \in BookSet(rowPlacementsMap[rowId]) :
            LET rowPlacements == rowPlacementsMap[rowId]
                oldIndex == FindIndex(rowPlacements, active)
                newIndex == FindIndex(rowPlacements, over)
                m == RowReorderMutation(rowId, active, oldIndex, newIndex)
            IN  /\ active # over
                /\ oldIndex # -1 /\ newIndex # -1
                /\ rowPlacementsMap' =
                       [rowPlacementsMap EXCEPT ![rowId] = updatedRow(rowPlacements, oldIndex, newIndex)]
                /\ pendingRowId' = rowId
                /\ inflight' = Mutate(inflight, m)
                /\ last' = Step("handleRowDragEnd", "reorder", RowDrag(rowId, active),
                                RowItemDrop(rowId, over), m, TRUE, FALSE, {CallOf(m)})
    /\ drags' = drags + 1
    /\ UNCHANGED <<srv, structData, structFetching, unplacedData, unplacedFetching,
                   pendingRows, clears, structInvalid, unplacedInvalid, snackbarOpen>>
    /\ UNCHANGED <<tabVars, sectionVars, shelfVars, searchVars, dialogVars, listVars>>

\* A reorder call settles: onSuccess invalidates "shelf-structure", onError
\* opens the snackbar and invalidates "shelf-structure", onSettled resets
\* pendingRowId. The callbacks of the useMutation options run for every call;
\* those passed to mutate() do the same over again.
reorderSettled ==
    /\ currentTab = "overview"
    /\ \E m \in inflight, ok \in BOOLEAN :
        /\ ok => ServerAcceptsOrder(srv, m.rowId, m.order)
        /\ srv' = IF ok THEN ServerReorder(srv, m.rowId, m.order) ELSE srv
        /\ structFetching' = TRUE
        /\ snackbarOpen' = (snackbarOpen \/ ~ok)
        /\ pendingRowId' = NoRow
        /\ inflight' = inflight \ {m}
        /\ last' = Step("reorderSettled", "none", UnplacedDrag(NoBook), NoOver, m, ok,
                        m.current, {})
    /\ UNCHANGED <<structData, unplacedData, unplacedFetching, rowPlacementsMap,
                   pendingRows, drags, clears, structInvalid, unplacedInvalid>>
    /\ UNCHANGED <<tabVars, sectionVars, shelfVars, searchVars, dialogVars, listVars>>

\* The fetch of "shelf-structure" resolves. The data object is kept when the
\* response is deeply equal to it, so the snapshot effect, which depends on
\* data, runs only when the response differs from the cached data.
snapshotRefreshed ==
    /\ currentTab = "overview"
    /\ structFetching
    /\ structFetching' = FALSE
    /\ structData' = srv
    /\ rowPlacementsMap' = IF srv # structData THEN Snapshot(srv) ELSE rowPlacementsMap
    /\ last' = PlainStep("snapshotRefreshed")
    /\ UNCHANGED <<srv, unplacedData, unplacedFetching, pendingRows, inflight, drags,
                   clears, structInvalid, unplacedInvalid, singleVars, listVars>>
    /\ UNCHANGED <<tabVars, sectionVars, shelfVars, searchVars, dialogVars, listVars>>

\* The snackbar hides by itself or is closed.
closeSnackbar ==
    /\ currentTab = "overview"
    /\ snackbarOpen
    /\ snackbarOpen' = FALSE
    /\ last' = PlainStep("closeSnackbar")
    /\ UNCHANGED <<boardState, currentTab, pendingRowId, sectionVars, shelfVars, searchVars, dialogVars, listVars>>

\* A session on the single-row board (SingleSpec).
SingleNext ==
    \/ handleRowDragEnd
    \/ reorderSettled
    \/ snapshotRefreshed
    \/ closeSnackbar

SingleSpec == Init /\ [][SingleNext]_vars

\* ----------------------------------- a move on a board of three rows
\* moveBookBetweenRows on a board that shows a third row besides the two rows
\* of the move: the local lists of the rows, dense or with gaps as snapshots
\* have them, and the books of the unplaced list.
FrameRows == 1..NumFrameRows

FrameMaps ==
    {[r \in FrameRows |-> IF r = 1 THEN first ELSE IF r = 2 THEN second
                          ELSE IF r = 3 THEN third ELSE << >>] :
        first \in {<<Placement(1, 1), Placement(2, 2)>>, <<Placement(1, 1), Placement(2, 3)>>},
        second \in {<<Placement(3, 1)>>, << >>},
        third \in {<<Placement(4, 2)>>, <<Placement(4, 1)>>, << >>}}

FrameInit ==
    /\ srv = InitialServer
    /\ ViewsLoaded
    /\ SectionIdle
    /\ rowPlacementsMap \in FrameMaps
    /\ unplacedData = Books \ UNION {BookSet(rowPlacementsMap[r]) : r \in FrameRows}

\* moveBookBetweenRows(bookId, sourceRowId, targetRowId, targetIndex) with a
\* book of the source row and an index that resolveInsertionIndex can return.
moveOnThreeRows ==
    /\ drags < MaxDrags
    /\ \E sourceRowId \in FrameRows, targetRowId \in FrameRows :
        \E bookId \in BookSet(rowPlacementsMap[sourceRowId]), targetIndex \in 0..Len(rowPlacementsMap[targetRowId]) :
            LET m == MoveMutation(bookId, sourceRowId, targetRowId, targetIndex)
            IN  /\ moveBookBetweenRows(bookId, sourceRowId, targetRowId, targetIndex)
                /\ last' = Step("moveBookBetweenRows", "move", RowDrag(sourceRowId, bookId),
                                RowDrop(targetRowId), m, TRUE, FALSE, {CallOf(m)})
    /\ drags' = drags + 1
    /\ UNCHANGED <<srv, structData, structFetching, unplacedFetching, clears,
                   structInvalid, unplacedInvalid>>
    /\ UNCHANGED <<tabVars, sectionVars, shelfVars, searchVars, singleVars, dialogVars, listVars>>

MoveNext == moveOnThreeRows

MoveSpec == FrameInit /\ [][MoveNext]_vars

\* ------------------------------------------------- the placement dialog
\* PlacementDialog of the collection view. The dialog reads the cache of
\* "shelf-structure" (structData); its query is enabled while it is open.
\* computeAvailableSlots(placements): the gaps below the highest occupied
\* slot in ascending order, then the slot after the highest.
OccupiedSlots(placements) == {placements[i].slot_index : i \in 1..Len(placements)}

computeAvailableSlots(placements) ==
    LET seen == OccupiedSlots(placements)
        maxSlot == IF seen = {} THEN 0
                   ELSE CHOOSE x \in seen : \A y \in seen : y <= x
        gaps == SelectSeq([i \in 1..maxSlot |-> i], LAMBDA i : i \notin seen)
    IN  Append(gaps, IF maxSlot + 1 = 0 THEN 1 ELSE maxSlot + 1)

\* rowsForShelf and placementsForRow, the two useMemo of the dialog.
rowsForShelf(data, shelf) ==
    IF shelf = NoShelf THEN {} ELSE {r \in Rows : ShelfOf(r) = shelf}

placementsForRow(data, shelf, r) ==
    IF r = NoRow THEN << >>
    ELSE IF r \in rowsForShelf(data, shelf) THEN data[r] ELSE << >>

availableSlots == computeAvailableSlots(placementsForRow(structData, selectedShelf, selectedRow))

\* The condition under which the effect on [selectedRow, availableSlots,
\* selectedSlot] sets the slot to availableSlots[0].
SlotResetOnlyWhenEmpty(r, slot, available) ==
    r # NoRow /\ Len(available) > 0 /\ slot = NoSlot

SlotReset(r, slot, available) ==
    r # NoRow /\ Len(available) > 0 /\ (slot = NoSlot \/ slot \notin Range(available))

\* The book a card of the collection hands to the dialog.
BookOf(s, b) ==
    IF b \in ServerPlaced(s)
    THEN LET r == CHOOSE q \in Rows : b \in BookSet(s[q])
             placement == CHOOSE x \in Range(s[r]) : x.book_id = b
         IN  BookProp(b, ShelfOf(r), r, placement.slot_index)
    ELSE BookProp(b, NoShelf, NoRow, NoSlot)

\* onMove of a card: setPlacementTarget(book). The dialog opens, the effect on
\* [open, book] takes the book's placement as the selection, and the query of
\* "shelf-structure" (staleTime 0) fetches.
openDialog ==
    /\ currentTab = "collection"
    /\ ~dialogOpen
    /\ \E b \in Books \ deleted :
        LET book == BookOf(srv, b)
        IN  /\ dialogOpen' = TRUE
            /\ dialogBook' = book
            /\ selectedShelf' = book.shelf_id
            /\ selectedRow' = book.shelf_row_id
            /\ selectedSlot' = book.slot_index
    /\ effectsRun' = FALSE
    /\ structFetching' = TRUE
    /\ last' = PlainStep("openDialog")
    /\ UNCHANGED <<srv, structData, unplacedData, unplacedFetching, rowPlacementsMap,
                   pendingRows, inflight, drags, clears, structInvalid,
                   unplacedInvalid, placementCall, placementsMade>>
    /\ UNCHANGED <<tabVars, sectionVars, shelfVars, searchVars, singleVars, listVars>>

\* Skip placement, or a click outside the dialog: onClose.
closeDialog ==
    /\ dialogOpen
    /\ dialogOpen' = FALSE
    /\ dialogBook' = NoBookProp
    /\ last' = PlainStep("closeDialog")
    /\ UNCHANGED <<boardState, currentTab, selectedShelf, selectedRow, selectedSlot,
                   effectsRun, placementCall, placementsMade>>
    /\ UNCHANGED <<sectionVars, shelfVars, searchVars, singleVars, listVars>>

\* handleShelfChange(value) of the shelf field.
handleShelfChange ==
    /\ dialogOpen
    /\ \E value \in liveShelves :
        /\ selectedShelf' = value
        /\ selectedRow' = NoRow
        /\ selectedSlot' = NoSlot
    /\ effectsRun' = FALSE
    /\ last' = PlainStep("handleShelfChange")
    /\ UNCHANGED <<boardState, currentTab, dialogOpen, dialogBook, placementCall,
                   placementsMade>>
    /\ UNCHANGED <<sectionVars, shelfVars, searchVars, singleVars, listVars>>

\* onChange of the row field, which lists rowsForShelf.
handleRowChange ==
    /\ dialogOpen
    /\ selectedShelf # NoShelf
    /\ \E r \in rowsForShelf(structData, selectedShelf) :
        /\ r # selectedRow
        /\ selectedRow' = r
    /\ effectsRun' = FALSE
    /\ last' = PlainStep("handleRowChange")
    /\ UNCHANGED <<boardState, currentTab, dialogOpen, dialogBook, selectedShelf,
                   selectedSlot, placementCall, placementsMade>>
    /\ UNCHANGED <<sectionVars, shelfVars, searchVars, singleVars, listVars>>

\* onClick of the button of an available slot.
handleSlotClick ==
    /\ dialogOpen
    /\ selectedRow # NoRow
    /\ \E slot \in Range(availableSlots) :
        /\ slot # selectedSlot
        /\ selectedSlot' = slot
    /\ effectsRun' = FALSE
    /\ last' = PlainStep("handleSlotClick")
    /\ UNCHANGED <<boardState, currentTab, dialogOpen, dialogBook, selectedShelf,
                   selectedRow, placementCall, placementsMade>>
    /\ UNCHANGED <<sectionVars, shelfVars, searchVars, singleVars, listVars>>

\* onClick of Place at end, rendered while the selected slot is occupied.
handlePlaceAtEnd ==
    /\ dialogOpen
    /\ selectedRow # NoRow
    /\ selectedSlot \in OccupiedSlots(placementsForRow(structData, selectedShelf, selectedRow))
    /\ selectedSlot' = Len(placementsForRow(structData, selectedShelf, selectedRow)) + 1
    /\ effectsRun' = FALSE
    /\ last' = PlainStep("handlePlaceAtEnd")
    /\ UNCHANGED <<boardState, currentTab, dialogOpen, dialogBook, selectedShelf,
                   selectedRow, placementCall, placementsMade>>
    /\ UNCHANGED <<sectionVars, shelfVars, searchVars, singleVars, listVars>>

\* The effect on [selectedRow, availableSlots, selectedSlot] runs after a
\* render that changed one of them; when it sets the slot it runs once more.
slotEffect ==
    /\ ~effectsRun
    /\ IF SlotReset(selectedRow, selectedSlot, availableSlots)
       THEN /\ selectedSlot' = availableSlots[1]
            /\ effectsRun' = FALSE
       ELSE /\ selectedSlot' = selectedSlot
            /\ effectsRun' = TRUE
    /\ last' = PlainStep("slotEffect")
    /\ UNCHANGED <<boardState, currentTab, dialogOpen, dialogBook, selectedShelf,
                   selectedRow, placementCall, placementsMade>>
    /\ UNCHANGED <<sectionVars, shelfVars, searchVars, singleVars, listVars>>

\* The fetch of "shelf-structure" resolves while the collection is shown; the
\* useMemo chain of the dialog and its effect follow when the placements of
\* the selected row changed.
dialogStructureRefetched ==
    /\ currentTab = "collection"
    /\ structFetching
    /\ structFetching' = FALSE
    /\ structInvalid' = FALSE
    /\ structData' = srv
    /\ effectsRun' = (effectsRun /\ placementsForRow(srv, selectedShelf, selectedRow)
                                    = placementsForRow(structData, selectedShelf, selectedRow))
    /\ last' = PlainStep("dialogStructureRefetched")
    /\ UNCHANGED <<srv, unplacedData, unplacedFetching, rowPlacementsMap, pendingRows,
                   inflight, drags, clears, unplacedInvalid, dialogOpen, dialogBook,
                   selectedShelf, selectedRow, selectedSlot, placementCall,
                   placementsMade>>
    /\ UNCHANGED <<tabVars, sectionVars, shelfVars, searchVars, singleVars, listVars>>

\* handleSubmit of Save placement, disabled while a call is pending or no row
\* or slot is selected: placementMutation.mutate(). The mutationFn is the one
\* of the render whose effects have run.
handleSubmit ==
    /\ dialogOpen
    /\ effectsRun
    /\ placementCall = NoPlacementCall
    /\ selectedRow # NoRow
    /\ selectedSlot # NoSlot
    /\ placementsMade < MaxPlacements
    /\ placementsMade' = placementsMade + 1
    /\ placementCall' = PlacementCall(dialogBook.id, selectedRow, selectedSlot)
    /\ last' = PlainStep("handleSubmit")
    /\ UNCHANGED <<boardState, currentTab, dialogOpen, dialogBook, selectedShelf,
                   selectedRow, selectedSlot, effectsRun>>
    /\ UNCHANGED <<sectionVars, shelfVars, searchVars, singleVars, listVars>>

\* The placement call settles. onSuccess invalidates "shelf-structure", which
\* the open dialog observes, and "unplaced-books", and closes the dialog
\* (onPlaced, onClose); onError shows the message.
placementSettled ==
    /\ placementCall # NoPlacementCall
    /\ \E ok \in BOOLEAN :
        /\ srv' = IF ok THEN ServerPlace(srv, placementCall.bookId,
                                         placementCall.shelf_row_id,
                                         placementCall.slot_index)
                  ELSE srv
        /\ dialogOpen' = (dialogOpen /\ ~ok)
        /\ dialogBook' = IF ok THEN NoBookProp ELSE dialogBook
        /\ structFetching' = (structFetching \/ (ok /\ dialogOpen))
        /\ structInvalid' = (structInvalid \/ (ok /\ ~dialogOpen))
        /\ unplacedInvalid' = (unplacedInvalid \/ ok)
    /\ placementCall' = NoPlacementCall
    /\ last' = PlainStep("placementSettled")
    /\ UNCHANGED <<structData, unplacedData, unplacedFetching, rowPlacementsMap,
                   pendingRows, inflight, drags, clears, selectedShelf, selectedRow,
                   selectedSlot, effectsRun, placementsMade>>
    /\ UNCHANGED <<tabVars, sectionVars, shelfVars, searchVars, singleVars, listVars>>

\* A session that leaves the board for the collection and places books
\* through the dialog (DialogSpec).
DialogInit ==
    /\ srv \in {InitialServer, InitialServerFull, InitialServerGapped}
    /\ BoardLoaded
    /\ SectionIdle

DialogNext ==
    \/ showCollection
    \/ openDialog
    \/ closeDialog
    \/ handleShelfChange
    \/ handleRowChange
    \/ handleSlotClick
    \/ handlePlaceAtEnd
    \/ slotEffect
    \/ dialogStructureRefetched
    \/ handleSubmit
    \/ placementSettled

DialogSpec == DialogInit /\ [][DialogNext]_vars

\* ------------------------------------------------ one row section (RowSpec)
boardVars == <<srv, structData, structFetching, unplacedData, unplacedFetching,
               rowPlacementsMap, pendingRows, inflight, drags, clears, last,
               structInvalid, unplacedInvalid, tabVars, shelfVars, searchVars, singleVars, dialogVars, listVars>>

\* The lists a row section is given as rowPlacements: sorted by slot_index,
\* dense after an optimistic update, with gaps after a snapshot.
RECURSIVE PlacementsAtSlots(_, _)
PlacementsAtSlots(slots, book) ==
    IF slots = {} THEN << >>
    ELSE LET low == CHOOSE x \in slots : \A y \in slots : x <= y
         IN  <<Placement(book, low)>> \o PlacementsAtSlots(slots \ {low}, book + 1)

SectionLists == {PlacementsAtSlots(S, 1) : S \in SUBSET (1..MaxSlot)}

SliceLength(total, visible) == Min(visible, Max(total, 0))
MaxOffset(total, visible) == Max(0, total - SliceLength(total, visible))

totalSlots ==
    TotalSlots(Len(sectionPlacements), sectionCapacity, sectionVisibleSlots)
sliceLength == SliceLength(totalSlots, sectionVisibleSlots)
maxOffset == MaxOffset(totalSlots, sectionVisibleSlots)

visibleSlotNumbers ==
    IF sliceLength = 0 \/ totalSlots = 0 THEN {}
    ELSE LET start == Min(sectionSlotOffset, maxOffset)
         IN  {start + index + 1 : index \in 0..(sliceLength - 1)}

\* The effect on [maxOffset]: setSlotOffset(prev => clamp(prev, 0, maxOffset)).
ClampOffset(prev, max) ==
    IF prev > max THEN max ELSE IF prev < 0 THEN 0 ELSE prev

\* computeVisibleSlots(width), slotsFit being Math.floor(width / SLOT_WIDTH).
computeVisibleSlots(slotsFit) ==
    Max(MIN_VISIBLE_SLOTS,
        Min(MAX_VIEWPORT_SLOTS, IF slotsFit > 0 THEN slotsFit ELSE MIN_VISIBLE_SLOTS))

RowInit ==
    /\ BoardInit
    /\ srv = InitialServer
    /\ sectionCapacity \in 0..MaxCapacity
    /\ sectionPlacements \in SectionLists
    /\ sectionVisibleSlots = MIN_VISIBLE_SLOTS
    /\ sectionSlotOffset = 0

\* The ResizeObserver reports a width; the effect on [maxOffset] follows.
sectionResized ==
    \E slotsFit \in 0..(MAX_VIEWPORT_SLOTS + 1) :
        LET visible == computeVisibleSlots(slotsFit)
            total == TotalSlots(Len(sectionPlacements), sectionCapacity, visible)
        IN  /\ sectionVisibleSlots' = visible
            /\ sectionSlotOffset' =
                   ClampOffset(sectionSlotOffset, MaxOffset(total, visible))
            /\ UNCHANGED <<sectionCapacity, sectionPlacements, boardVars>>

\* handleScroll(direction) of the two chevron buttons.
handleScroll ==
    \E direction \in {"left", "right"} :
        LET step == Max(1, sectionVisibleSlots - 1)
            next == IF direction = "left" THEN sectionSlotOffset - step
                    ELSE sectionSlotOffset + step
        IN  /\ direction = "left" => sectionSlotOffset > 0
            /\ direction = "right" => sectionSlotOffset < maxOffset
            /\ sectionSlotOffset' =
                   IF next < 0 THEN 0 ELSE IF next > maxOffset THEN maxOffset ELSE next
            /\ UNCHANGED <<sectionCapacity, sectionPlacements, sectionVisibleSlots,
                           boardVars>>

\* handleWheel(event) with a vertical wheel movement.
handleWheel ==
    \E direction \in {1, -1} :
        LET next == sectionSlotOffset + direction
        IN  /\ sectionSlotOffset' =
                   IF next < 0 THEN 0 ELSE IF next > maxOffset THEN maxOffset ELSE next
            /\ UNCHANGED <<sectionCapacity, sectionPlacements, sectionVisibleSlots,
                           boardVars>>

\* The board hands the section another list; the effect on [maxOffset] follows.
sectionPlacementsChanged ==
    \E list \in SectionLists :
        LET total == TotalSlots(Len(list), sectionCapacity, sectionVisibleSlots)
        IN  /\ list # sectionPlacements
            /\ sectionPlacements' = list
            /\ sectionSlotOffset' =
                   ClampOffset(sectionSlotOffset, MaxOffset(total, sectionVisibleSlots))
            /\ UNCHANGED <<sectionCapacity, sectionVisibleSlots, boardVars>>

RowNext ==
    \/ sectionResized
    \/ handleScroll
    \/ handleWheel
    \/ sectionPlacementsChanged

RowSpec == RowInit /\ [][RowNext]_vars

\* ================================================================ claims
IsDense(placements) ==
    \A i \in 1..Len(placements) : placements[i].slot_index = i

\* The rows an operation touches: the target row and, for a move, the source row.
Touched(m) == {m.rowId, m.sourceRowId} \ {NoRow}

\* The rows a call in flight changes on the backend.
RowsChangedBy(m) ==
    IF m.hook = "assign" THEN {m.rowId, m.sourceRowId} \ {NoRow} ELSE {m.rowId}

IsEdit(m) == m.kind \in {"add", "move", "within"}

Dispatched == last.h = "handleDragEnd" /\ last.intent # "none"
Settled == last.h = "settle" /\ IsEdit(last.op)

\* 0-based position of a book in a list of placements, -1 when absent.
PositionOf(placements, b) == FindIndex(placements, b)

\* C1 (as claimed): when an insert, a move or a reorder has completed, by
\* success or by rollback, the slot indices of every row it touched are
\* exactly 1..N in list order.
C1_DenseAfterCompletion ==
    Settled => \A r \in Touched(last.op) : IsDense(rowPlacementsMap[r])

\* C1 (amended): right after the optimistic update of an insert, a move or a
\* reorder the slot indices of every touched row are exactly 1..N in list
\* order; a rollback gives every touched row the slot indices it had before
\* the operation, gaps included.
C1_DenseAfterOptimisticUpdate ==
    /\ Dispatched =>
           \A r \in Touched(last.op) : IsDense(rowPlacementsMap[r])
    /\ (Settled /\ ~last.ok /\ last.fired) =>
           \A r \in Touched(last.op) :
               SlotIndices(rowPlacementsMap[r]) = SlotIndices(last.op.pre[r])

\* An operation was applied to a row whose snapshot had a gap.
C1_Witness ==
    /\ Dispatched
    /\ ~IsDense(last.op.pre[last.op.rowId])
    /\ Len(rowPlacementsMap[last.op.rowId]) >= 2

\* C2: when the mutation of an insert, a move or a reorder fails, every row
\* the operation touched holds exactly the list it held right before the
\* operation was dispatched.
C2_FailureRestoresTouchedRows ==
    (Settled /\ ~last.ok) =>
        \A r \in Touched(last.op) : rowPlacementsMap[r] = last.op.pre[r]

\* C3: a row that no mutation in flight touches, with no shelf-structure
\* fetch outstanding, shows the placements of the last server snapshot for
\* that row sorted by slot index.
Stable(r) ==
    /\ ~structFetching
    /\ \A m \in inflight : r \notin RowsChangedBy(m) \cup Touched(m)

C3_StableRowShowsSnapshot ==
    \A r \in Rows : Stable(r) => rowPlacementsMap[r] = SortBySlot(structData[r])

\* C4: a book id occurs at most once across the local lists of all rows, and
\* no book is listed both in the cached unplaced list and in a row.
C4_BookPlacedAtMostOnce ==
    /\ \A r \in Rows : \A i, j \in 1..Len(rowPlacementsMap[r]) :
           rowPlacementsMap[r][i].book_id = rowPlacementsMap[r][j].book_id => i = j
    /\ \A r, q \in Rows :
           r # q => BookSet(rowPlacementsMap[r]) \cap BookSet(rowPlacementsMap[q]) = {}
    /\ \A r \in Rows : BookSet(rowPlacementsMap[r]) \cap unplacedData = {}

\* C5: while a placement-assignment or reorder call that changes row R is in
\* flight, R is in pendingRows.
C5_ChangedRowIsPending ==
    \A m \in inflight : RowsChangedBy(m) \subseteq pendingRows

\* C6: once every mutation has settled no row is left pending.
C6_NoPendingRowWhenSettled ==
    inflight = {} => pendingRows = {}

\* C7: at most one insert, move or reorder touching a row is in flight at any
\* time.
C7_OneEditInFlightPerRow ==
    \A r \in Rows : \A m, n \in inflight :
        (IsEdit(m) /\ IsEdit(n) /\ r \in Touched(m) /\ r \in Touched(n)) => m = n

\* C8 (as claimed): a drop onto the occupied item X of row R, from any drag
\* source, puts the dragged book immediately before X in R's list and
\* removes no book that was in R.
DroppedOnItem == Dispatched /\ last.over.targetType = "row-item"

C8_DropLandsBeforeItem ==
    DroppedOnItem =>
        LET list == BookIds(rowPlacementsMap[last.over.rowId])
        IN  /\ \E k \in 1..(Len(list) - 1) :
                   list[k] = last.active.bookId /\ list[k + 1] = last.over.bookId
            /\ BookSet(last.op.pre[last.over.rowId])
                   \subseteq BookSet(rowPlacementsMap[last.over.rowId])

\* C8 (amended): a drop of an unplaced book or of an item of another row onto
\* the occupied item X of row R puts the dragged book immediately before X; a
\* drop of an item of R itself gives the dragged book the position X had, so
\* it stands immediately before X when it came from behind X and immediately
\* after X when it came from before X; in every case the other books of R
\* keep their order and none is removed or replaced.
C8_DropTakesItemPosition ==
    DroppedOnItem =>
        LET R == last.over.rowId
            list == BookIds(rowPlacementsMap[R])
            before == BookIds(last.op.pre[R])
            p == PositionOf(last.op.pre[R], last.over.bookId) + 1
            q == PositionOf(last.op.pre[R], last.active.bookId) + 1
        IN  /\ p >= 1
            /\ list[p] = last.active.bookId
            /\ IF last.intent = "reorder"
               THEN /\ q >= 1
                    /\ Len(list) = Len(before)
                    /\ IF q < p THEN list[p - 1] = last.over.bookId
                       ELSE list[p + 1] = last.over.bookId
                    /\ SpliceOut(list, p - 1) = SpliceOut(before, q - 1)
               ELSE /\ Len(list) = Len(before) + 1
                    /\ list[p + 1] = last.over.bookId
                    /\ SpliceOut(list, p - 1) = before

\* An item was dropped onto an item that stood after it in the same row.
C8_Witness ==
    /\ DroppedOnItem
    /\ last.intent = "reorder"
    /\ last.op.index > PositionOf(last.op.pre[last.over.rowId], last.active.bookId)

\* C9 (as claimed): an insert at 0-based index I of row R, from the unplaced
\* set or from another row, issues the placement call with shelf_row_id = R
\* and slot_index = I + 1.
Inserted == Dispatched /\ last.intent \in {"add", "move"}

C9_PlacementCarriesRequestedIndex ==
    Inserted =>
        last.issued = {Call("placement", last.active.bookId, last.op.rowId,
                            last.op.index + 1, << >>)}

\* C9 (amended): an insert from the unplaced set at index I of row R issues
\* the placement call with shelf_row_id = R and slot_index = I + 1; a move
\* from another row issues it with shelf_row_id = R and slot_index = L + 1,
\* L being the number of books R held before the move (the append position),
\* whatever I is.
C9_PlacementIndexBySource ==
    Inserted =>
        last.issued =
            {Call("placement", last.active.bookId, last.over.rowId,
                  IF last.intent = "add" THEN last.op.index + 1
                  ELSE Len(last.op.pre[last.over.rowId]) + 1,
                  << >>)}

\* A book was moved to a position before the end of another row.
C9_Witness ==
    /\ Inserted
    /\ last.intent = "move"
    /\ last.op.index < Len(last.op.pre[last.op.rowId])

\* C10: when the placement call of a cross-row move to index I of a target
\* row that held L books settles, a reorder call for the target row is issued
\* exactly when the call succeeded and I differs from L, and it lists the
\* optimistic order of the target row.
C10_FollowUpReorderIffNotAppended ==
    (last.h = "settle" /\ last.op.kind = "move") =>
        LET m == last.op
            L == Len(m.pre[m.rowId])
            optimistic == BookIds(SpliceIn(m.pre[m.rowId], m.index,
                                           Placement(m.bookId, 1)))
        IN  last.issued =
                IF last.ok /\ m.index # L
                THEN {Call("order", NoBook, m.rowId, NoSlot, optimistic)}
                ELSE {}

\* C11: a drop that leaves the book where it is (onto itself, onto a slot that
\* resolves to its own index, onto the append zone of its own row when it is
\* already last) and a drop with no target issue no call and leave the
\* placement map, the pending rows, the cached unplaced list and the mutations
\* in flight unchanged.
StaysInPlace(active, over) ==
    \/ over = NoOver
    \/ /\ active.sourceType = "row"
       /\ over.rowId = active.rowId
       /\ LET list == rowPlacementsMap[active.rowId]
              from == PositionOf(list, active.bookId)
              gap == Max(0, Min(over.slotIndex - 1, Len(list)))
          IN  /\ from >= 0
              /\ \/ over.targetType = "row-item" /\ over.bookId = active.bookId
                 \/ /\ over.targetType = "row-slot"
                    /\ (IF from < gap THEN gap - 1 ELSE gap) = from
                 \/ over.targetType = "row" /\ from = Len(list) - 1

C11_NoOpDropChangesNothing ==
    [][(last'.h = "handleDragEnd" /\ StaysInPlace(last'.active, last'.over)) =>
           /\ last'.issued = {}
           /\ UNCHANGED <<rowPlacementsMap, pendingRows, unplacedData, inflight>>]_vars

\* A card was dropped onto an open slot of its own row that resolves to the
\* index the card already has.
C11_Witness ==
    /\ last.h = "handleDragEnd"
    /\ last.intent = "none"
    /\ last.active.sourceType = "row"
    /\ last.over.targetType = "row-slot"
    /\ StaysInPlace(last.active, last.over)

\* C12 (as claimed): an effective drop is handled as a local reorder (one
\* reorder call, no placement call) exactly when it comes from a row item,
\* the target row is the source row and the target is a specific item; every
\* other effective drop issues one placement call.
IssuesOnly(kind) ==
    /\ Cardinality(last.issued) = 1
    /\ \A c \in last.issued : c.call = kind

SameRowDrop ==
    /\ last.active.sourceType = "row"
    /\ last.over.rowId = last.active.rowId

C12_ReorderOnlyOnItemOfOwnRow ==
    Dispatched =>
        IF SameRowDrop /\ last.over.targetType = "row-item"
        THEN IssuesOnly("order") ELSE IssuesOnly("placement")

\* C12 (amended): an effective drop is handled as a local reorder (one reorder
\* call for the row, no placement call) exactly when it comes from a row item
\* and the target row is the source row, whether the target is an item, an
\* open slot or the append zone; an effective drop onto another row or from
\* the unplaced set issues one placement call for the dragged book and the
\* target row.
C12_ReorderOnOwnRow ==
    Dispatched =>
        /\ IF SameRowDrop THEN IssuesOnly("order") ELSE IssuesOnly("placement")
        /\ \A c \in last.issued :
               /\ c.rowId = last.over.rowId
               /\ c.call = "placement" => c.bookId = last.active.bookId

\* A card was dropped onto an open slot of its own row and changed its place.
C12_Witness ==
    /\ Dispatched
    /\ SameRowDrop
    /\ last.over.targetType = "row-slot"
    /\ last.intent = "reorder"

\* C13: a reorder within row R that moves the book at index i to index j
\* yields the list with that book removed and re-inserted at index j: the
\* book stands at index j, the other books keep their relative order, the set
\* of books is the same, the slots are renumbered 1..N, a row [A,B,C] whose A
\* is moved to the third place becomes [B,C,A], and the order sent to the
\* backend is the list of book ids of the new list.
Reordered == Dispatched /\ last.intent = "reorder"

C13_ReorderMovesBookToIndex ==
    Reordered =>
        LET R == last.op.rowId
            before == BookIds(last.op.pre[R])
            after == BookIds(rowPlacementsMap[R])
            i == PositionOf(last.op.pre[R], last.active.bookId)
            j == last.op.index
        IN  /\ i >= 0 /\ j >= 0 /\ j < Len(before) /\ i # j
            /\ Len(after) = Len(before)
            /\ after[j + 1] = last.active.bookId
            /\ SpliceOut(after, j) = SpliceOut(before, i)
            /\ Range(after) = Range(before)
            /\ IsDense(rowPlacementsMap[R])
            /\ (Len(before) = 3 /\ i = 0 /\ j = 2) =>
                   after = <<before[2], before[3], before[1]>>
            /\ last.issued = {Call("order", NoBook, R, NoSlot, after)}

\* The first book of a row of three was moved to the third place.
C13_Witness ==
    /\ Reordered
    /\ Len(last.op.pre[last.op.rowId]) = 3
    /\ PositionOf(last.op.pre[last.op.rowId], last.active.bookId) = 0
    /\ last.op.index = 2

\* C14: a drop onto an open slot whose number is greater than the number of
\* placements of the target row appends the book: the insertion index is
\* clamped to the length of the list, the book becomes the last element of
\* the row's list and the books the row held stay in front of it in their
\* order.
DroppedBeyondEnd ==
    /\ last.h = "handleDragEnd"
    /\ last.over.targetType = "row-slot"
    /\ last.over.slotIndex >
           Len(IF last.intent = "none" THEN rowPlacementsMap[last.over.rowId]
               ELSE last.op.pre[last.over.rowId])

C14_DropBeyondEndAppends ==
    DroppedBeyondEnd =>
        LET R == last.over.rowId
            list == rowPlacementsMap[R]
        IN  /\ Len(list) >= 1
            /\ list[Len(list)].book_id = last.active.bookId
            /\ last.intent \in {"add", "move"} =>
                   /\ last.op.index = Len(last.op.pre[R])
                   /\ BookIds(list) = Append(BookIds(last.op.pre[R]), last.active.bookId)
            /\ last.intent = "reorder" =>
                   /\ last.op.index = Len(last.op.pre[R]) - 1
                   /\ SubSeq(BookIds(list), 1, Len(list) - 1) =
                          SpliceOut(BookIds(last.op.pre[R]),
                                    PositionOf(last.op.pre[R], last.active.bookId))

\* An unplaced book was dropped onto an open slot that lies more than one
\* slot behind the last book of the row.
C14_Witness ==
    /\ DroppedBeyondEnd
    /\ last.intent = "add"
    /\ last.over.slotIndex > Len(last.op.pre[last.over.rowId]) + 1

\* C15: for a row section with finite capacity C, n placements and a window
\* of W slots the number of addressable slots is min(max(n + 1, W), C); every
\* slot number the section renders lies in 1..C; whenever n < C at least one
\* addressable slot is open; capacity 3 holding books in the slots 1..3
\* offers no open slot, and capacity 5 holding books in the slots 1 and 2
\* offers slot 3.
OpenSlots == {slot \in 1..totalSlots : BookAtSlot(sectionPlacements, slot) = NoBook}

C15_SlotsWithinCapacity ==
    sectionCapacity > 0 =>
        LET n == Len(sectionPlacements)
        IN  /\ totalSlots = Min(Max(n + 1, sectionVisibleSlots), sectionCapacity)
            /\ visibleSlotNumbers \subseteq 1..sectionCapacity
            /\ n < sectionCapacity => OpenSlots # {}
            /\ (sectionCapacity = 3 /\ n = 3 /\ IsDense(sectionPlacements)) =>
                   OpenSlots = {}
            /\ (sectionCapacity = 5 /\ n = 2 /\ IsDense(sectionPlacements)) =>
                   3 \in OpenSlots \cap visibleSlotNumbers

\* A row of capacity 5 holding two books was widened to a window of six
\* slots, more than its capacity.
C15_Witness ==
    /\ sectionCapacity = 5
    /\ Len(sectionPlacements) = 2
    /\ IsDense(sectionPlacements)
    /\ sectionVisibleSlots = MAX_VIEWPORT_SLOTS
    /\ 5 \in visibleSlotNumbers

\* The board is mounted and shows settled data: no mutation is in flight and
\* no fetch is outstanding.
BoardAtRest ==
    /\ currentTab = "overview"
    /\ inflight = {}
    /\ ~structFetching
    /\ ~unplacedFetching

OnBoard(b) == \E r \in Rows : b \in BookSet(rowPlacementsMap[r])

\* C16: after a successful clear-placement call both the shelf-structure
\* cache entry and the unplaced-books cache entry are invalidated (refetched
\* at once, or marked for the refetch at the next mount of the board).
C16_ClearInvalidatesBothCaches ==
    (last.h = "clearPlacement" /\ last.ok) =>
        /\ structFetching \/ structInvalid
        /\ unplacedFetching \/ unplacedInvalid

\* C17: when a book that was unplaced has been placed into a row and its
\* placement has then been cleared, both calls succeeding, and the board
\* shows settled data, the book is listed in the cached unplaced list and
\* stands in no row's local list.
C17_PlaceThenClearRestoresUnplaced ==
    \A b \in ServerUnplaced(InitialServer) \cap cleared :
        (BoardAtRest /\ b \notin deleted) =>
            /\ b \in unplacedData
            /\ ~OnBoard(b)

\* C18: after a successful delete-book call the deleted book is in no client
\* view: once the board shows settled data it lists the book neither in the
\* unplaced list nor in a row.
C18_DeletedBookLeavesEveryView ==
    \A b \in deleted :
        BoardAtRest => (b \notin unplacedData /\ ~OnBoard(b))

\* C19: every failed mutation is reported to the user: when a call of the
\* board fails while the callbacks of its mutate() call are still attached,
\* it is one of the three edits (add, move, reorder within a row), whose
\* mutate-level onError opens the snackbar.
C19_EveryFailureIsReported ==
    (last.h = "settle" /\ ~last.ok /\ last.op.current) => IsEdit(last.op)

DeleteHandlers == {"handleDelete", "handleDeleteShelf", "handleDeleteRow"}
IsDeleteCall(c) == c.call \in {"delete-book", "delete-shelf", "delete-row"}

\* The step is the delete handler of the very item the call deletes.
PromptedFor(step, c) ==
    /\ c.call = "delete-book" => (step.h = "handleDelete" /\ step.bookId = c.bookId)
    /\ c.call = "delete-shelf" =>
           (step.h = "handleDeleteShelf" /\ step.shelfId = c.shelfId)
    /\ c.call = "delete-row" => (step.h = "handleDeleteRow" /\ step.rowId = c.rowId)

\* What the backend holds and what the client holds, the history apart.
clientAndServer ==
    <<srv, liveShelves, liveRows, deleted, structData, structFetching,
      structInvalid, unplacedData, unplacedFetching, unplacedInvalid,
      rowPlacementsMap, pendingRows, inflight, currentTab, selectedShelfId>>

\* C20: a delete call for a shelf, a row or a book is issued only by the step
\* in which the user accepted the confirmation prompt of that very item; a
\* step in which the user declined the prompt issues no call and leaves the
\* backend and the client as they were.
C20_DeleteOnlyAfterConfirm ==
    [][/\ \A c \in last'.issued :
              IsDeleteCall(c) => (last'.accepted /\ PromptedFor(last', c))
       /\ (last'.h \in DeleteHandlers /\ ~last'.accepted) =>
              (last'.issued = {} /\ UNCHANGED clientAndServer)]_vars

\* C20 witness: the user accepted the prompt of a row and the row was deleted,
\* after a book and a shelf had been deleted in the same way.
C20_Witness ==
    /\ last.h = "handleDeleteRow"
    /\ last.accepted
    /\ last.ok
    /\ last.issued = {ShelfCall("delete-row", last.shelfId, last.rowId)}
    /\ last.rowId \notin liveRows
    /\ deleted # {}
    /\ liveShelves # Shelves

\* max(1, ceil(T / S)) without a division: the least n >= 1 with n * S >= T.
LeastPages(T, S) ==
    CHOOSE n \in 1..(T + 1) : n * S >= T /\ (n = 1 \/ (n - 1) * S < T)

ShownResponse == searchData(searchResponse, form)
ShownPages == totalPages(ShownResponse, form)
PagesComputed ==
    (searchResponse # NoResponse) =>
        ShownPages = LeastPages(searchResponse.total, searchResponse.page_size)

\* C21 as stated: the computed total pages are max(1, ceil(T / S)), and while
\* the pagination controls are shown Next is disabled exactly when the page of
\* the response is >= the total pages.
C21_NextDisabledIffLastPage ==
    PaginationShown =>
        /\ PagesComputed
        /\ NextDisabled <=> (ShownResponse.page >= ShownPages)

\* C21 amended: the computed total pages are max(1, ceil(T / S)); Next is
\* disabled while a fetch is outstanding, and otherwise exactly when the page
\* of the response is >= the total pages.
C21_NextDisabledIffLastPageOrFetching ==
    PaginationShown =>
        /\ PagesComputed
        /\ searchFetching => NextDisabled
        /\ ~searchFetching =>
               (NextDisabled <=>
                    ShownResponse.page >= LeastPages(ShownResponse.total,
                                                     ShownResponse.page_size))

\* C21 witness: the response to page 2 of a search with 25 matches and page
\* size 10 has arrived; the total pages are 3 and Next is enabled.
C21_Witness ==
    /\ PaginationShown
    /\ last.h = "searchSettled"
    /\ searchResponse = [total |-> LargeTotal, page |-> 2, page_size |-> 10]
    /\ ShownPages = 3
    /\ ~NextDisabled

\* C29: pressing Next or Previous changes only the page of the active query,
\* by +1 or -1, and keeps it within 1..total pages; the keywords, the year and
\* the page size of the active query stay as they were.
C29_PagingChangesOnlyThePage ==
    [][(last'.h \in {"handleNext", "handlePrevious"}) =>
           /\ activeParams'.q = activeParams.q
           /\ activeParams'.year = activeParams.year
           /\ activeParams'.pageSize = activeParams.pageSize
           /\ activeParams'.page =
                  activeParams.page + (IF last'.h = "handleNext" THEN 1 ELSE -1)
           /\ activeParams'.page \in 1..ShownPages]_vars

\* C22: on the single-row board, when the only reorder call of a session
\* fails, a notification is shown and the row stops being pending, and the
\* refetch that follows restores the row's local list to the order it had
\* before the reorder, also when the response equals the cached data.
C22_FailedReorderRestoresRow ==
    [][/\ (last'.h = "reorderSettled" /\ ~last'.ok) =>
              (snackbarOpen' /\ pendingRowId' = NoRow)
       /\ (/\ last.h = "reorderSettled" /\ ~last.ok
           /\ drags = 1 /\ inflight = {}
           /\ last'.h = "snapshotRefreshed") =>
              rowPlacementsMap'[last.op.rowId] = last.op.previousSourcePlacements]_vars

FollowUpFailed(step) ==
    step.h = "settle" /\ ~step.ok /\ step.op.kind = "followup"

\* C23: when the follow-up reorder call of a cross-row move fails, the step
\* leaves every local list as it is (nothing is restored to a snapshot from
\* before the move) and invalidates "shelf-structure", which starts a
\* refetch.
C23_FailedFollowUpRefetchesOnly ==
    [][FollowUpFailed(last') =>
           /\ rowPlacementsMap' = rowPlacementsMap
           /\ unplacedData' = unplacedData
           /\ structFetching']_vars

\* C23 witness: the follow-up reorder of a move failed; the target row still
\* shows the moved book in the order the user arranged, the backend holds the
\* book at the end of the row, and a refetch is outstanding.
C23_Witness ==
    /\ FollowUpFailed(last)
    /\ BookIds(rowPlacementsMap[last.op.rowId]) = last.op.order
    /\ last.op.bookId \in BookSet(srv[last.op.rowId])
    /\ BookIds(SortBySlot(srv[last.op.rowId])) # last.op.order
    /\ structFetching

\* An edit that changed row r is in flight and r is pending.
EditInFlightOn(r) ==
    /\ r \in pendingRows
    /\ \E m \in inflight : IsEdit(m) /\ r \in Touched(m)

\* C24: while an optimistic edit on a row is in flight and the row is
\* pending, the arrival of a server snapshot leaves the row's local list as
\* the optimistic update made it.
C24_SnapshotKeepsPendingEdit ==
    [][(last'.h = "structureRefetched") =>
           \A r \in Rows :
               EditInFlightOn(r) => rowPlacementsMap'[r] = rowPlacementsMap[r]]_vars

WithoutBook(ids, b) == SelectSeq(ids, LAMBDA x : x # b)

\* C25: a move of book b from row S to index I of row T takes exactly b out of
\* S's local list and puts exactly b at index I of T's list, keeps the order
\* of the other books of S and T, numbers the slots of S and T 1..N, and
\* leaves the local list of every other row and the unplaced list as they
\* were.
C25_MoveChangesOnlyItsTwoRows ==
    [][(last'.h = "moveBookBetweenRows") =>
           LET b == last'.op.bookId
               S == last'.op.sourceRowId
               T == last'.op.rowId
               I == last'.op.index
               pre == rowPlacementsMap
               post == rowPlacementsMap'
           IN  /\ BookIds(post[S]) = WithoutBook(BookIds(pre[S]), b)
               /\ Len(post[S]) = Len(pre[S]) - 1
               /\ post[T][I + 1].book_id = b
               /\ Len(post[T]) = Len(pre[T]) + 1
               /\ WithoutBook(BookIds(post[T]), b) = BookIds(pre[T])
               /\ IsDense(post[S]) /\ IsDense(post[T])
               /\ \A r \in FrameRows \ {S, T} : post[r] = pre[r]
               /\ unplacedData' = unplacedData]_vars

\* C25 witness: a book was moved to the front or the middle of a row that held
\* books, while a third row holds a book in a slot with a gap before it.
C25_Witness ==
    /\ last.h = "moveBookBetweenRows"
    /\ last.op.index < Len(last.op.pre[last.op.rowId])
    /\ \E r \in FrameRows \ {last.op.rowId, last.op.sourceRowId} :
           /\ rowPlacementsMap[r] # << >>
           /\ ~IsDense(rowPlacementsMap[r])
           /\ rowPlacementsMap[r] = last.op.pre[r]

\* C26: the local placement list of a row with a finite capacity never holds
\* more books than that capacity, whatever was dropped on the row.
C26_RowWithinCapacity ==
    \A r \in Rows :
        RowCapacity(r) > 0 => Len(rowPlacementsMap[r]) <= RowCapacity(r)

\* C27: every placement of the list a row section shows has a slot_index
\* within the addressable slots of the section, so scrolling can bring every
\* placed book into the window.
C27_EveryPlacementAddressable ==
    \A i \in 1..Len(sectionPlacements) :
        sectionPlacements[i].slot_index <= totalSlots

\* C28: whenever a row is selected in the placement dialog and its effects
\* have run, the selected slot is one of computeAvailableSlots of the cached
\* placements of that row: a positive slot that no cached placement of the
\* row occupies, a gap below the highest occupied slot or the slot after it;
\* and the slot_index of a placement call is never a slot that the cached
\* structure shows as occupied in the row of the call.
CachedSlots(r) == OccupiedSlots(placementsForRow(structData, ShelfOf(r), r))

HighestCachedSlot(r) ==
    IF CachedSlots(r) = {} THEN 0
    ELSE CHOOSE x \in CachedSlots(r) : \A y \in CachedSlots(r) : y <= x

IsOpenSlot(r, slot) ==
    /\ slot >= 1
    /\ slot \notin CachedSlots(r)
    /\ slot <= HighestCachedSlot(r) + 1

C28_SelectedSlotIsAvailable ==
    /\ [](selectedRow # NoRow /\ effectsRun =>
            /\ selectedSlot \in Range(availableSlots)
            /\ selectedShelf = ShelfOf(selectedRow) => IsOpenSlot(selectedRow, selectedSlot))
    /\ [][placementCall' # NoPlacementCall /\ placementCall = NoPlacementCall =>
            placementCall'.slot_index \notin CachedSlots(placementCall'.shelf_row_id)]_vars

\* The dialog was opened on a placed book, whose own slot is occupied, the
\* slot was chosen anew and the call is on its way.
C28_Witness ==
    /\ placementCall # NoPlacementCall
    /\ placementCall.bookId \in BookSet(structData[placementCall.shelf_row_id])
    /\ dialogBook.shelf_row_id = placementCall.shelf_row_id

\* C30: while ShelvesView shows a list of shelves that is not empty, the
\* selected shelf is a shelf of that list, also after a shelf was deleted and
\* the list was fetched again.
C30_SelectionIsListed ==
    (currentTab = "shelves" /\ shelvesData # {}) => selectedShelfId \in shelvesData

====
